---- MODULE Spec2Model ----
(***************************************************************************)
(* A state-machine model of the acpi-system core: the generic address      *)
(* accessor and register layer (hardware.rs), the fixed-event / SCI        *)
(* dispatcher (event.rs), the sleep engine (sleep.rs) and the facade       *)
(* (lib.rs).                                                               *)
(*                                                                         *)
(* An unsigned integer (u8 .. u64) is modelled as the set of the positions *)
(* of its 1 bits, so that the bit operations of the code are exact at any  *)
(* width: | is \cup, & is \cap, a cast to u32 is the intersection with     *)
(* 0..31.  The I/O port space and the memory space are each the set of the *)
(* (byte address * 8 + bit) positions that hold a 1.                       *)
(***************************************************************************)
EXTENDS Integers, Sequences, FiniteSets, TLC

VARIABLES
    io,             \* I/O port space of the platform (set of 1-bit positions)
    mem,            \* memory space of the platform (set of 1-bit positions)
    fadt,           \* the mapped FADT (AcpiSystem::fadt)
    pm1_registers,  \* AcpiSystem::pm1_registers, read once in new()
    aml,            \* the AML namespace / interpreter outcomes (aml_context)
    event_handlers, \* AcpiSystem::event_handlers
    gpe0_block,     \* AcpiSystem::gpe0_block
    pc,             \* position of the running call ("idle" between calls)
    frames,         \* the locals of the active calls
    log,            \* platform operations and handler invocations of the current top-level call
    result,         \* what the last top-level call returned
    budget          \* top-level calls and hardware events still allowed in this behaviour

vars == <<io, mem, fadt, pm1_registers, aml, event_handlers, gpe0_block,
          pc, frames, log, result, budget>>

----------------------------------------------------------------------------
(* Bounds of the model *)

\* top-level calls and hardware events in one behaviour that starts from a
\* sampled state of the platform and of the handler table
MaxOps == 1

\* top-level calls and hardware events in one behaviour that starts with all
\* fixed events disabled and no handler installed
MaxSeq == 2

\* registers (status/enable pairs) in the GPE0 block
MaxGpeRegs == 1

----------------------------------------------------------------------------
(* Values *)

\* Option<T>: <<>> is None, <<x>> is Some(x)
None == <<>>
Some(x) == <<x>>
IsSome(o) == o # <<>>
Unwrap(o) == o[1]

\* the bits of a small natural number
BitsOf(n) == {k \in 0..15 : (n \div (2^k)) % 2 = 1}

\* bit_field::BitField for u32/u64
get_bit(v, k) == k \in v
set_bit(v, k, b) == IF b THEN v \cup {k} ELSE v \ {k}
get_bits(v, lo, hi) == {k - lo : k \in {j \in v : j >= lo /\ j < hi}}
set_bits(v, lo, hi, x) == (v \ (lo..(hi - 1))) \cup {k + lo : k \in x}

\* `as u8`, `as u16`, `as u32`
AsU(v, w) == v \cap (0..(w - 1))

\* `as u8` on an integer
AsU8Int(n) == n % 256

----------------------------------------------------------------------------
(* hardware.rs: constants and bit registers *)

PM1_STATUS_PRESERVED_BITS_none == {}

PM1_STATUS_PRESERVED_BITS == {11}

AcpiRegister == {"Pm1Status", "Pm1Control", "Pm1Enable"}

SCI_ENABLE == [parent |-> "Pm1Control", position |-> 0]
SLEEP_ENABLE == [parent |-> "Pm1Control", position |-> 13]
WAKE_STATUS == [parent |-> "Pm1Status", position |-> 15]
SLEEP_TYPE == [lo |-> 10, hi |-> 13]

get_from_raw(reg, value) == get_bit(value, reg.position)
set_raw(reg, raw, value) == set_bit(raw, reg.position, value)
range_set_raw_or(reg, raw, value) == raw \cup {k + reg.lo : k \in BitsOf(value)}
range_set_raw(reg, raw, value) == set_bits(raw, reg.lo, reg.hi, BitsOf(value))

----------------------------------------------------------------------------
(* hardware.rs: access_bit_width *)

is_power_of_two_never(n) == FALSE

is_power_of_two(n) == n \in {1, 2, 4, 8, 16, 32, 64, 128}

\* u8::next_power_of_two; wraps to 0 above 128 (release build)
next_power_of_two(n) ==
    IF n <= 1 THEN 1
    ELSE IF n > 128 THEN 0
    ELSE CHOOSE p \in {2, 4, 8, 16, 32, 64, 128} : p >= n /\ p \div 2 < n

RECURSIVE HalveUntilAligned(_, _)
HalveUntilAligned(address, width) ==
    IF address % width # 0 THEN HalveUntilAligned(address, width \div 2) ELSE width

Min(a, b) == IF a <= b THEN a ELSE b

access_bit_width(register, address, maximum_width) ==
    LET computed ==
            IF /\ register.bit_offset = 0
               /\ register.bit_width # 0
               /\ is_power_of_two(register.bit_width)
               /\ register.bit_width % 8 = 0
            THEN register.bit_width
            ELSE IF register.access_size # "Undefined"
            THEN CASE register.access_size = "ByteAccess" -> 8
                   [] register.access_size = "WordAccess" -> 16
                   [] register.access_size = "DWordAccess" -> 32
                   [] register.access_size = "QWordAccess" -> 64
            ELSE LET width == next_power_of_two((register.bit_offset + register.bit_width) % 256)
                 IN  IF width < 8 THEN 8 ELSE HalveUntilAligned(address, width)
        maxw == IF register.address_space = "SystemIo" THEN 32 ELSE maximum_width
    IN  Min(computed, maxw)

----------------------------------------------------------------------------
(* The platform behind the Handler trait (lib.rs): a little-endian port    *)
(* space and memory space.  Status registers (PM1a/PM1b Status, the GPE    *)
(* status bytes) are write-1-to-clear; every other port is plain storage.  *)

Ok == "ok"
Panic == "panic"

\* the positions of space `store` covered by an n-bit access at `address`
Cover(address, n) == {address * 8 + k : k \in 0..(n - 1)}

\* io_read_u8/u16/u32, mem_read_u8/u16/u32/u64
PortRead(store, address, n) == {k \in 0..(n - 1) : address * 8 + k \in store}

RegCover(reg) ==
    {reg.address * 8 + reg.bit_offset + k : k \in 0..(reg.bit_width - 1)}

\* the write-1-to-clear positions of address space `space`
W1C(space) ==
    LET InSpace(reg) == IF reg.address_space = space THEN RegCover(reg) ELSE {}
        OptInSpace(o) == IF IsSome(o) THEN InSpace(Unwrap(o)) ELSE {}
        gpe == IF IsSome(fadt.gpe0_block) /\ Unwrap(fadt.gpe0_block).address_space = space
               THEN Cover(Unwrap(fadt.gpe0_block).address, 8 * (fadt.gpe0_block_length \div 2))
               ELSE {}
    IN  InSpace(pm1_registers.x_pm1a_status) \cup OptInSpace(pm1_registers.x_pm1b_status) \cup gpe

\* io_write_u8/u16/u32 on the platform
PortWrite(store, address, n, bits) ==
    LET Latch(range, written, w1c) ==
            ((store \ (range \ w1c)) \cup (written \ w1c)) \ (written \cap w1c)
    IN  Latch(Cover(address, n), {address * 8 + k : k \in bits \cap (0..(n - 1))},
              W1C("SystemIo"))

----------------------------------------------------------------------------
(* hardware.rs: raw access dispatch *)

Access(op, address, width, bits) ==
    [op |-> op, address |-> address, width |-> width, value |-> bits]

\* result: [status, data, acc] ; acc is the platform operation performed
read_address_space(space, address, width) ==
    CASE space = "SystemMemory" /\ width \in {8, 16, 32, 64} ->
            [status |-> Ok, data |-> PortRead(mem, address, width),
             acc |-> <<Access("mem_read", address, width, PortRead(mem, address, width))>>]
      [] space = "SystemIo" /\ address <= 65535 /\ width = 8 ->
            [status |-> Ok, data |-> PortRead(io, address, 8),
             acc |-> <<Access("io_read", address, 8, PortRead(io, address, 8))>>]
      [] space = "SystemIo" /\ address <= 65535 /\ width = 16 ->
            \* 16 => H::io_read_u32
            [status |-> Ok, data |-> PortRead(io, address, 32),
             acc |-> <<Access("io_read", address, 32, PortRead(io, address, 32))>>]
      [] space = "SystemIo" /\ address <= 65535 /\ width = 32 ->
            \* 32 => H::io_read_u16
            [status |-> Ok, data |-> PortRead(io, address, 16),
             acc |-> <<Access("io_read", address, 16, PortRead(io, address, 16))>>]
      [] OTHER -> [status |-> Panic, data |-> {}, acc |-> <<>>]

\* result: [status, io, acc] ; io is the port space after the write
write_address_space(store, space, address, width, value) ==
    CASE space = "SystemIo" /\ address <= 65535 /\ width \in {8, 16, 32} ->
            [status |-> Ok, io |-> PortWrite(store, address, width, AsU(value, width)),
             acc |-> <<Access("io_write", address, width, AsU(value, width))>>]
      [] OTHER -> [status |-> Panic, io |-> store, acc |-> <<>>]

----------------------------------------------------------------------------
(* hardware.rs: read_address / write_address (the stride algorithm) *)

RECURSIVE ReadLoop(_, _, _, _, _, _, _)
ReadLoop(reg, W, bit_width, bit_offset, index, value, acc) ==
    IF bit_width = 0 THEN [status |-> Ok, value |-> value, acc |-> acc]
    ELSE
    LET skip == bit_offset >= W
        bit_position == index * W
        \* the rest of the iteration, given the outcome rd of its read
        Merge(rd, acc2) ==
            IF rd.status # Ok THEN [status |-> rd.status, value |-> value, acc |-> acc]
            ELSE IF bit_position + W > 64
            THEN [status |-> Panic, value |-> value, acc |-> acc2]
            ELSE IF bit_width > W
            THEN ReadLoop(reg, W, bit_width - W,
                          IF skip THEN bit_offset - W ELSE bit_offset, index + 1,
                          set_bits(value, bit_position, bit_position + W,
                                   get_bits(rd.data, 0, W)),
                          acc2)
            ELSE [status |-> Ok,
                  value |-> set_bits(value, bit_position, bit_position + W,
                                     get_bits(rd.data, 0, W)),
                  acc |-> acc2]
        Step(rd) == Merge(rd, acc \o rd.acc)
    IN  Step(IF skip THEN [status |-> Ok, data |-> {}, acc |-> <<>>]
             ELSE read_address_space(reg.address_space,
                                     reg.address + ((index * W) \div 8), W))

read_address(reg) ==
    ReadLoop(reg, access_bit_width(reg, reg.address, 64),
             reg.bit_width + reg.bit_offset, reg.bit_offset, 0, {}, <<>>)

RECURSIVE WriteLoop(_, _, _, _, _, _, _, _)
WriteLoop(store, reg, W, bit_width, bit_offset, index, value, acc) ==
    IF bit_width = 0 THEN [status |-> Ok, io |-> store, acc |-> acc]
    ELSE
    LET bit_position == index * W
        skip == bit_offset >= W
        \* the rest of the iteration, given the outcome wr of its write
        Step(wr) ==
            IF bit_position + W > 64 THEN [status |-> Panic, io |-> store, acc |-> acc]
            ELSE IF wr.status # Ok THEN [status |-> wr.status, io |-> store, acc |-> acc]
            ELSE IF bit_width > W
            THEN WriteLoop(wr.io, reg, W, bit_width - W,
                           IF skip THEN bit_offset - W ELSE bit_offset,
                           index + 1, value, acc \o wr.acc)
            ELSE [status |-> Ok, io |-> wr.io, acc |-> acc \o wr.acc]
    IN  Step(IF skip THEN [status |-> Ok, io |-> store, acc |-> <<>>]
             ELSE write_address_space(store, reg.address_space,
                                      reg.address + ((index * W) \div 8), W,
                                      get_bits(value, bit_position, bit_position + W)))

write_address(store, reg, value) ==
    WriteLoop(store, reg, access_bit_width(reg, reg.address, 64),
              reg.bit_width + reg.bit_offset, reg.bit_offset, 0, value, <<>>)

----------------------------------------------------------------------------
(* hardware.rs: the register layer *)

\* result: [status, value, acc]
read_register_pair(reg_a, reg_b) ==
    LET Pair(ra, rb) ==
            IF ra.status # Ok THEN [status |-> ra.status, value |-> {}, acc |-> ra.acc]
            ELSE IF rb.status # Ok
            THEN [status |-> rb.status, value |-> {}, acc |-> ra.acc \o rb.acc]
            ELSE [status |-> Ok, value |-> AsU(ra.value, 32) \cup AsU(rb.value, 32),
                  acc |-> ra.acc \o rb.acc]
    IN  Pair(read_address(reg_a),
             IF IsSome(reg_b) THEN read_address(Unwrap(reg_b))
             ELSE [status |-> Ok, value |-> {}, acc |-> <<>>])

\* result: [status, io, acc]
write_pair(store, reg_a, reg_b, value_a, value_b) ==
    LET Join(wa, wb) == [status |-> wb.status, io |-> wb.io, acc |-> wa.acc \o wb.acc]
        Second(wa) ==
            IF wa.status # Ok THEN wa
            ELSE Join(wa, IF IsSome(reg_b) THEN write_address(wa.io, Unwrap(reg_b), value_b)
                          ELSE [status |-> Ok, io |-> wa.io, acc |-> <<>>])
    IN  Second(write_address(store, reg_a, value_a))

write_register_pair(store, reg_a, reg_b, value) ==
    write_pair(store, reg_a, reg_b, value, value)

AcpiErr == "AcpiError"

read_register(register) ==
    CASE register = "Pm1Status" ->
            read_register_pair(pm1_registers.x_pm1a_status, pm1_registers.x_pm1b_status)
      [] register = "Pm1Enable" ->
            read_register_pair(pm1_registers.x_pm1a_enable, pm1_registers.x_pm1b_enable)
      [] register = "Pm1Control" ->
            IF fadt.control_block_err
            THEN [status |-> AcpiErr, value |-> {}, acc |-> <<>>]
            ELSE read_register_pair(fadt.pm1a_control_block, fadt.pm1b_control_block)

write_register(store, register, value) ==
    CASE register = "Pm1Status" ->
            write_register_pair(store, pm1_registers.x_pm1a_status,
                                pm1_registers.x_pm1b_status,
                                value \ PM1_STATUS_PRESERVED_BITS)
      [] register = "Pm1Enable" ->
            write_register_pair(store, pm1_registers.x_pm1a_enable,
                                pm1_registers.x_pm1b_enable, value)
      [] register = "Pm1Control" ->
            [status |-> Panic, io |-> store, acc |-> <<>>]

write_pm1_control(store, reg_a_value, reg_b_value) ==
    IF fadt.control_block_err
    THEN [status |-> AcpiErr, io |-> store, acc |-> <<>>]
    ELSE write_pair(store, fadt.pm1a_control_block, fadt.pm1b_control_block,
                    reg_a_value, reg_b_value)

----------------------------------------------------------------------------
(* event.rs: the fixed events *)

GPE_REGISTER_WIDTH == 8

EventHandlerId == {"Timer", "GlobalLock", "PowerButton", "SleepButton", "Rtc"}

FixedEvent(name, bit, id) ==
    [name |-> name,
     enable_register |-> [parent |-> "Pm1Enable", position |-> bit],
     status_register |-> [parent |-> "Pm1Status", position |-> bit],
     handler_id |-> id]

TIMER == FixedEvent("Timer", 0, "Timer")
GLOBAL_LOCK == FixedEvent("Global Lock", 5, "GlobalLock")
POWER_BUTTON == FixedEvent("Power Button", 8, "PowerButton")
SLEEP_BUTTON == FixedEvent("Sleep Button", 9, "SleepButton")
RTC == FixedEvent("RTC", 10, "Rtc")

LIST == <<TIMER, GLOBAL_LOCK, POWER_BUTTON, SLEEP_BUTTON, RTC>>

EventBits == {LIST[i].status_register.position : i \in 1..Len(LIST)}

\* EventAction; a handler closure is modelled by the action it returns
Nothing == [kind |-> "Nothing", state |-> 0]
EnterSleepState(s) == [kind |-> "EnterSleepState", state |-> s]

\* AcpiSleepState as u8
AcpiSleepState == 0..5

----------------------------------------------------------------------------
(* event.rs: GPE block creation *)

GpeAddress(block_address, address) ==
    [address_space |-> block_address.address_space, address |-> address,
     bit_width |-> GPE_REGISTER_WIDTH, bit_offset |-> 0, access_size |-> "Undefined"]

base_gpe_number_flat(block_base_number, i) == block_base_number

GPE_DISABLE_none == 0..7

\* the 0x00 of Self::write_address(enable_register, 0x00)
GPE_DISABLE == {}

\* block_base_number + i as u16 * GPE_REGISTER_WIDTH as u16
base_gpe_number(block_base_number, i) ==
    (block_base_number + i * GPE_REGISTER_WIDTH) % 65536

\* one iteration of `for i in 0..register_count`
\* result: [status, io, acc, info, events]
GpeRegister(store, block_address, register_count, block_base_number, i) ==
    LET status_register == GpeAddress(block_address, block_address.address + i)
        enable_register == GpeAddress(block_address,
                                      block_address.address + i + register_count)
        events == [j \in 1..GPE_REGISTER_WIDTH |->
                      [gpe_number |-> (base_gpe_number(block_base_number, i) + (j - 1)) % 65536,
                       register_index |-> i]]
        Outcome(w) ==
            [status |-> w.status, io |-> w.io, acc |-> w.acc,
             info |-> [base_gpe_number |-> base_gpe_number(block_base_number, i),
                       status_register |-> status_register,
                       enable_register |-> enable_register],
             events |-> events]
        Join(we, ws) == [status |-> ws.status, io |-> ws.io, acc |-> we.acc \o ws.acc]
        Clear(we) ==
            IF we.status # Ok THEN [status |-> we.status, io |-> store, acc |-> we.acc]
            ELSE Join(we, write_address(we.io, status_register, BitsOf(255)))
    IN  Outcome(Clear(write_address(store, enable_register, GPE_DISABLE)))

----------------------------------------------------------------------------
(* sleep.rs: evaluation of \_Sx, \_PTS and \_SI._SST *)

AmlErr == "AmlError"

AmlInvoke(path, arg) == Access("aml_invoke", path, 0, BitsOf(arg))
PATH_PREPARE_TO_SLEEP == "\\_PTS"
PATH_SYSTEM_STATUS == "\\_SI._SST"

\* result: [status, a, b]
sleep_type_data(state) ==
    LET info == aml.namespace[state]
        fail == [status |-> Panic, a |-> 0, b |-> 0]
    IN  IF info.kind = "Missing" THEN fail
        ELSE IF info.kind # "Package" THEN fail
        ELSE IF Len(info.elements) < 2 THEN fail
        ELSE IF \/ info.elements[1].type # "Integer"
                \/ info.elements[2].type # "Integer" THEN fail
        ELSE [status |-> Ok, a |-> AsU8Int(info.elements[1].value),
              b |-> AsU8Int(info.elements[2].value)]

\* result: [status, a, b, acc]
prepare_sleep_state(state) ==
    LET types == sleep_type_data(state)
        pts == <<AmlInvoke(PATH_PREPARE_TO_SLEEP, state)>>
        sst == <<AmlInvoke(PATH_SYSTEM_STATUS, 0)>>
        out(st, acc) == [status |-> st, a |-> types.a, b |-> types.b, acc |-> acc]
    IN  IF types.status # Ok THEN out(types.status, <<>>)
        ELSE IF aml.pts \notin {"Ok", "ValueDoesNotExist"} THEN out(AmlErr, pts)
        ELSE IF state # 5 THEN out(Panic, pts)
        ELSE IF aml.sst \notin {"Ok", "ValueDoesNotExist"} THEN out(AmlErr, pts \o sst)
        ELSE out(Ok, pts \o sst)

----------------------------------------------------------------------------
(* Control state *)

Frame0 ==
    [op |-> "none", event |-> 0, handler |-> [kind |-> "Nothing", state |-> 0],
     replaced |-> <<>>,
     bitreg |-> SCI_ENABLE, value |-> FALSE, reg_value |-> {}, set_ret |-> "none",
     attempts |-> 0, interrupt_method |-> 0, read_value |-> {},
     dfe |-> 0, gpe_i |-> 0, register_info |-> <<>>, event_info |-> <<>>,
     register_count |-> 0, block_base_number |-> 0, block |-> <<>>,
     reg |-> [address_space |-> "SystemIo", address |-> 0, bit_width |-> 8,
              bit_offset |-> 0, access_size |-> "Undefined"],
     access_width |-> 0,
     idx |-> 0, fixed_sts |-> {}, fixed_en |-> {},
     caller |-> "none", state |-> 0, sleep_type_a |-> 0, sleep_type_b |-> 0,
     pm1_control |-> {}, pm1a_control |-> {}, pm1b_control |-> {}]

Idle == pc = "idle" /\ budget > 0

Hw == <<fadt, pm1_registers, aml, mem>>

\* todo!(), unimplemented!(), panic!() and unwrap() on None/Err abort the kernel
Abort(acc) ==
    /\ pc' = "panicked"
    /\ log' = log \o acc
    /\ UNCHANGED <<io, event_handlers, gpe0_block, frames, result, budget>>

\* a top-level call returns `r`
Return(r, acc) ==
    /\ pc' = "returned"
    /\ result' = r
    /\ frames' = frames
    /\ log' = log \o acc

\* the caller of the facade takes the result; the core is idle again
Finish ==
    /\ pc = "returned"
    /\ pc' = "idle"
    /\ frames' = Frame0
    /\ log' = <<>>
    /\ result' = "none"
    /\ UNCHANGED <<io, event_handlers, gpe0_block, budget>>
    /\ UNCHANGED Hw

----------------------------------------------------------------------------
(* hardware.rs: AcpiBitRegister::set, called by enable_fixed_event,        *)
(* disable_fixed_events and the acknowledgement in handle_fixed_event_sci  *)

CallSet(fr, bitreg, value, ret) ==
    [fr EXCEPT !.bitreg = bitreg, !.value = value, !.set_ret = ret]

\* let mut reg_value = context.read_register(self.parent)?; reg_value.set_bit(..)
SetRead ==
    /\ pc = "set_read"
    /\ LET r == read_register(frames.bitreg.parent)
       IN  IF r.status # Ok THEN Abort(r.acc)
           ELSE /\ frames' = [frames EXCEPT !.reg_value =
                                 set_bit(r.value, frames.bitreg.position, frames.value)]
                /\ pc' = "set_write"
                /\ log' = log \o r.acc
                /\ UNCHANGED <<io, event_handlers, gpe0_block, result, budget>>
    /\ UNCHANGED Hw

\* context.write_register(self.parent, reg_value), returning to enable_fixed_event
SetWriteEnable ==
    /\ pc = "set_write" /\ frames.set_ret = "enable_fixed_event"
    /\ LET w == write_register(io, frames.bitreg.parent, frames.reg_value)
       IN  IF w.status # Ok THEN Abort(w.acc)
           ELSE /\ io' = w.io
                /\ Return("Ok", w.acc)
                /\ UNCHANGED <<event_handlers, gpe0_block, budget>>
    /\ UNCHANGED Hw

\* context.write_register(self.parent, reg_value), returning to disable_fixed_events
SetWriteDisable ==
    /\ pc = "set_write" /\ frames.set_ret = "disable_fixed_events"
    /\ LET w == write_register(io, frames.bitreg.parent, frames.reg_value)
           next == frames.dfe + 1
       IN  IF w.status # Ok THEN Abort(w.acc)
           ELSE /\ io' = w.io
                /\ log' = log \o w.acc
                /\ IF next <= Len(LIST)
                   THEN /\ frames' = CallSet([frames EXCEPT !.dfe = next],
                                             LIST[next].enable_register, FALSE,
                                             "disable_fixed_events")
                        /\ pc' = "set_read"
                   ELSE /\ frames' = [frames EXCEPT !.dfe = next]
                        /\ pc' = "initialize_gpes"
                /\ UNCHANGED <<event_handlers, gpe0_block, result, budget>>
    /\ UNCHANGED Hw

\* context.write_register(self.parent, reg_value), returning to handle_fixed_event_sci
SetWriteAck ==
    /\ pc = "set_write" /\ frames.set_ret = "handle_fixed_event_sci"
    /\ LET w == write_register(io, frames.bitreg.parent, frames.reg_value)
       IN  IF w.status # Ok THEN Abort(w.acc)
           ELSE /\ io' = w.io
                /\ log' = log \o w.acc
                /\ pc' = "sci_handler"
                /\ UNCHANGED <<event_handlers, gpe0_block, frames, result, budget>>
    /\ UNCHANGED Hw

\* context.write_register(self.parent, reg_value), returning to the caller of set
SetWrite ==
    /\ pc = "set_write" /\ frames.set_ret = "set"
    /\ \E w \in {write_register(io, frames.bitreg.parent, frames.reg_value)} :
          IF w.status # Ok THEN Abort(w.acc)
          ELSE /\ io' = w.io
               /\ Return("Ok", w.acc)
               /\ UNCHANGED <<event_handlers, gpe0_block, budget>>
    /\ UNCHANGED Hw

----------------------------------------------------------------------------
(* hardware.rs: write_register(Pm1Status, _), AcpiBitRegister::WAKE_STATUS ; *)
(* event.rs: clear_fixed_events                                             *)

Call(fr, next) ==
    /\ frames' = fr
    /\ pc' = next
    /\ log' = <<>>
    /\ result' = "none"
    /\ budget' = budget - 1
    /\ UNCHANGED <<io, event_handlers, gpe0_block>>
    /\ UNCHANGED Hw

\* self.write_register(AcpiRegister::Pm1Status, value)
write_status(value) ==
    /\ Idle
    /\ Call([Frame0 EXCEPT !.op = "write_register", !.reg_value = value], "write_status")

WriteStatus ==
    /\ pc = "write_status"
    /\ \E w \in {write_register(io, "Pm1Status", frames.reg_value)} :
          IF w.status # Ok THEN Abort(w.acc)
          ELSE /\ io' = w.io
               /\ Return("Ok", w.acc)
               /\ UNCHANGED <<event_handlers, gpe0_block, budget>>
    /\ UNCHANGED Hw

\* AcpiBitRegister::WAKE_STATUS.set(self, true)
set_wake_status ==
    /\ Idle
    /\ Call(CallSet([Frame0 EXCEPT !.op = "set"], WAKE_STATUS, TRUE, "set"), "set_read")

clear_fixed_events ==
    /\ Idle
    /\ Call([Frame0 EXCEPT !.op = "clear_fixed_events"], "clear_fixed_events")

\* let value = self.read_register(Pm1Status)?; .. self.write_register(Pm1Status, value)
\* (`result`, the pending events' bits, is computed and not used)
ClearFixedEvents ==
    /\ pc = "clear_fixed_events"
    /\ \E r \in {read_register("Pm1Status")} :
          IF r.status # Ok THEN Abort(r.acc)
          ELSE \E w \in {write_register(io, "Pm1Status", r.value)} :
                  IF w.status # Ok THEN Abort(r.acc \o w.acc)
                  ELSE /\ io' = w.io
                       /\ pc' = "returned"
                       /\ result' = "Ok"
                       /\ frames' = [frames EXCEPT !.reg_value = r.value]
                       /\ log' = log \o r.acc \o w.acc
                       /\ UNCHANGED <<event_handlers, gpe0_block, budget>>
    /\ UNCHANGED Hw

----------------------------------------------------------------------------
(* hardware.rs: write_register(Pm1Enable, _) followed by read_register(Pm1Enable) *)

write_enable(value) ==
    /\ Idle
    /\ Call([Frame0 EXCEPT !.op = "write_enable", !.reg_value = value], "write_enable")

\* self.write_register(AcpiRegister::Pm1Enable, value)?
WriteEnable ==
    /\ pc = "write_enable"
    /\ \E w \in {write_register(io, "Pm1Enable", frames.reg_value)} :
          IF w.status # Ok THEN Abort(w.acc)
          ELSE /\ io' = w.io
               /\ pc' = "read_enable"
               /\ log' = log \o w.acc
               /\ UNCHANGED <<event_handlers, gpe0_block, frames, result, budget>>
    /\ UNCHANGED Hw

\* self.read_register(AcpiRegister::Pm1Enable)
ReadEnable ==
    /\ pc = "read_enable"
    /\ \E r \in {read_register("Pm1Enable")} :
          IF r.status # Ok THEN Abort(r.acc)
          ELSE /\ pc' = "returned"
               /\ result' = "Ok"
               /\ frames' = [frames EXCEPT !.read_value = r.value]
               /\ log' = log \o r.acc
               /\ UNCHANGED <<io, event_handlers, gpe0_block, budget>>
    /\ UNCHANGED Hw

----------------------------------------------------------------------------
(* hardware.rs: access_bit_width and read_address applied to a Generic Address *)

call_access_bit_width(register) ==
    /\ Idle
    /\ Call([Frame0 EXCEPT !.op = "access_bit_width", !.reg = register],
            "access_bit_width")

\* access_bit_width(&reg, reg.address, 64)
AccessBitWidth ==
    /\ pc = "access_bit_width"
    /\ pc' = "returned"
    /\ result' = "Ok"
    /\ frames' = [frames EXCEPT
                     !.access_width = access_bit_width(frames.reg, frames.reg.address, 64)]
    /\ UNCHANGED <<io, event_handlers, gpe0_block, log, budget>>
    /\ UNCHANGED Hw

call_read_address(reg) ==
    /\ Idle
    /\ Call([Frame0 EXCEPT !.op = "read_address", !.reg = reg], "read_address")

\* Self::read_address(reg)
ReadAddress ==
    /\ pc = "read_address"
    /\ \E r \in {read_address(frames.reg)} :
          IF r.status # Ok THEN Abort(r.acc)
          ELSE /\ pc' = "returned"
               /\ result' = "Ok"
               /\ frames' = [frames EXCEPT
                                !.read_value = r.value,
                                !.access_width =
                                    access_bit_width(frames.reg, frames.reg.address, 64)]
               /\ log' = log \o r.acc
               /\ UNCHANGED <<io, event_handlers, gpe0_block, budget>>
    /\ UNCHANGED Hw

----------------------------------------------------------------------------
(* lib.rs: enable_fixed_event *)

store_handler_if_vacant(table, id, handler) ==
    IF IsSome(table[id]) THEN table ELSE [table EXCEPT ![id] = Some(handler)]

store_handler_dropped(table, id, handler) == table

\* self.event_handlers[event.handler_id].replace(handler)
store_handler(table, id, handler) == [table EXCEPT ![id] = Some(handler)]

enable_fixed_event(e, handler) ==
    /\ Idle
    /\ event_handlers' = store_handler(event_handlers, LIST[e].handler_id, handler)
    /\ frames' = CallSet([Frame0 EXCEPT !.op = "enable_fixed_event", !.event = e,
                                         !.handler = handler,
                                         !.replaced = event_handlers[LIST[e].handler_id]],
                         LIST[e].enable_register, TRUE, "enable_fixed_event")
    /\ pc' = "set_read"
    /\ log' = <<>>
    /\ result' = "none"
    /\ budget' = budget - 1
    /\ UNCHANGED <<io, gpe0_block>>
    /\ UNCHANGED Hw

----------------------------------------------------------------------------
(* event.rs: initialize_events *)

initialize_events ==
    /\ Idle
    /\ frames' = CallSet([Frame0 EXCEPT !.op = "initialize_events", !.dfe = 1],
                         LIST[1].enable_register, FALSE, "disable_fixed_events")
    /\ pc' = "set_read"
    /\ log' = <<>>
    /\ result' = "none"
    /\ budget' = budget - 1
    /\ UNCHANGED <<io, event_handlers, gpe0_block>>
    /\ UNCHANGED Hw

\* initialize_gpes without the creation of the GPE0 block
InitializeGpes_skipped ==
    /\ pc = "initialize_gpes"
    /\ pc' = "gpe1_block"
    /\ UNCHANGED <<io, event_handlers, gpe0_block, frames, log, result, budget>>
    /\ UNCHANGED Hw

\* initialize_gpes: the GPE0 block, when the FADT has one
InitializeGpes ==
    /\ pc = "initialize_gpes"
    /\ IF IsSome(fadt.gpe0_block)
       THEN /\ frames' = [frames EXCEPT
                             !.register_count = fadt.gpe0_block_length \div 2,
                             !.block_base_number = 0,
                             !.gpe_i = 0, !.register_info = <<>>, !.event_info = <<>>]
            /\ pc' = "initialize_gpe_block"
       ELSE /\ frames' = frames
            /\ pc' = "gpe1_block"
    /\ UNCHANGED <<io, event_handlers, gpe0_block, log, result, budget>>
    /\ UNCHANGED Hw

\* the GpeBlock that initialize_gpe_block returns once its loop is over
GpeBlock(fr) ==
    [register_info |-> fr.register_info, event_info |-> fr.event_info,
     gpe_count |-> fr.register_count * GPE_REGISTER_WIDTH]

\* initialize_gpe_block(gpe0, register_count, block_base_number, sci_interrupt),
\* one register per step; initialize_gpes keeps the block it gets with
\* self.gpe0_block.replace(block)
InitializeGpeBlock ==
    /\ pc = "initialize_gpe_block"
    /\ IF frames.gpe_i >= frames.register_count
       THEN IF frames.op = "initialize_gpe_block"
            THEN /\ pc' = "returned"
                 /\ result' = "Ok"
                 /\ frames' = [frames EXCEPT !.block = Some(GpeBlock(frames))]
                 /\ UNCHANGED <<io, gpe0_block, log>>
            ELSE /\ gpe0_block' = Some(GpeBlock(frames))
                 /\ pc' = "gpe1_block"
                 /\ UNCHANGED <<io, frames, log, result>>
       ELSE \E r \in {GpeRegister(io, Unwrap(fadt.gpe0_block), frames.register_count,
                                  frames.block_base_number, frames.gpe_i)} :
               /\ io' = r.io
               /\ log' = log \o r.acc
               /\ frames' = [frames EXCEPT
                                !.gpe_i = frames.gpe_i + 1,
                                !.register_info = Append(frames.register_info, r.info),
                                !.event_info = frames.event_info \o r.events]
               /\ pc' = IF r.status = Ok THEN "initialize_gpe_block" ELSE "panicked"
               /\ UNCHANGED <<gpe0_block, result>>
    /\ UNCHANGED <<event_handlers, budget>>
    /\ UNCHANGED Hw

\* a call of initialize_gpe_block on the FADT's GPE0 block address
initialize_gpe_block(block_base_number) ==
    /\ Idle
    /\ IsSome(fadt.gpe0_block)
    /\ frames' = [Frame0 EXCEPT !.op = "initialize_gpe_block",
                                !.register_count = fadt.gpe0_block_length \div 2,
                                !.block_base_number = block_base_number]
    /\ pc' = "initialize_gpe_block"
    /\ log' = <<>>
    /\ result' = "none"
    /\ budget' = budget - 1
    /\ UNCHANGED <<io, event_handlers, gpe0_block>>
    /\ UNCHANGED Hw

\* initialize_gpes: if let Some(_gpe1) = self.fadt.gpe1_block()? { todo!() }
Gpe1Block ==
    /\ pc = "gpe1_block"
    /\ pc' = IF IsSome(fadt.gpe1_block) THEN "panicked" ELSE "install_sci_handler"
    /\ UNCHANGED <<io, event_handlers, gpe0_block, frames, log, result, budget>>
    /\ UNCHANGED Hw

\* H::install_interrupt_handler(sci_interrupt): the host may refuse
install_sci_handler ==
    /\ pc = "install_sci_handler"
    /\ \E r \in {"Ok", "InstallError"} :
          IF r = "Ok" /\ frames.op = "initialize"
          THEN \* initialize goes on after self.initialize_events()?
               /\ pc' = "initialize_objects"
               /\ log' = Append(log, Access("install_interrupt_handler",
                                            fadt.sci_interrupt, 0, {}))
               /\ UNCHANGED <<frames, result>>
          ELSE Return(r, <<Access("install_interrupt_handler", fadt.sci_interrupt, 0, {})>>)
    /\ UNCHANGED <<io, event_handlers, gpe0_block, budget>>
    /\ UNCHANGED Hw

----------------------------------------------------------------------------
(* lib.rs: handle_sci ; event.rs: handle_fixed_event_sci *)

handle_sci ==
    /\ Idle
    /\ frames' = [Frame0 EXCEPT !.op = "handle_sci"]
    /\ pc' = "sci_read_status"
    /\ log' = <<>>
    /\ result' = "none"
    /\ budget' = budget - 1
    /\ UNCHANGED <<io, event_handlers, gpe0_block>>
    /\ UNCHANGED Hw

\* let fixed_sts = self.read_register(AcpiRegister::Pm1Status)?;
SciReadStatus ==
    /\ pc = "sci_read_status"
    /\ LET r == read_register("Pm1Status")
       IN  IF r.status # Ok THEN Abort(r.acc)
           ELSE /\ frames' = [frames EXCEPT !.fixed_sts = r.value]
                /\ pc' = "sci_read_enable"
                /\ log' = log \o r.acc
                /\ UNCHANGED <<io, event_handlers, gpe0_block, result, budget>>
    /\ UNCHANGED Hw

\* let fixed_en = self.read_register(AcpiRegister::Pm1Enable)?;
SciReadEnable ==
    /\ pc = "sci_read_enable"
    /\ LET r == read_register("Pm1Enable")
       IN  IF r.status # Ok THEN Abort(r.acc)
           ELSE /\ frames' = [frames EXCEPT !.fixed_en = r.value, !.idx = 1]
                /\ pc' = "sci_loop"
                /\ log' = log \o r.acc
                /\ UNCHANGED <<io, event_handlers, gpe0_block, result, budget>>
    /\ UNCHANGED Hw

Triggered_either(i, fixed_en, fixed_sts) ==
    \/ get_from_raw(LIST[i].enable_register, fixed_en)
    \/ get_from_raw(LIST[i].status_register, fixed_sts)

ack_value_zero == FALSE

\* event.status_register.set(self, true)
ack_value == TRUE

Triggered(i, fixed_en, fixed_sts) ==
    /\ get_from_raw(LIST[i].enable_register, fixed_en)
    /\ get_from_raw(LIST[i].status_register, fixed_sts)

\* for &event in FixedEvent::LIST { if enable && status { status_register.set(..) ..
SciLoop ==
    /\ pc = "sci_loop"
    /\ LET rest == {i \in frames.idx..Len(LIST) :
                        Triggered(i, frames.fixed_en, frames.fixed_sts)}
       IN  IF rest = {}
           THEN /\ Return("Ok", <<>>)
                /\ UNCHANGED <<io, event_handlers, gpe0_block, budget>>
           ELSE LET i == CHOOSE j \in rest : \A k \in rest : j <= k
                IN  /\ frames' = CallSet([frames EXCEPT !.idx = i],
                                         LIST[i].status_register, ack_value,
                                         "handle_fixed_event_sci")
                    /\ pc' = "set_read"
                    /\ UNCHANGED <<io, event_handlers, gpe0_block, log, result, budget>>
    /\ UNCHANGED Hw

HandlerCall(i) == Access("handler", i, 0, {})

\* if let Some(handler) = &self.event_handlers[..] { self.handle_event_action(handler(self)).ok(); }
SciHandler ==
    /\ pc = "sci_handler"
    /\ LET handler == event_handlers[LIST[frames.idx].handler_id]
       IN  IF ~IsSome(handler)
           THEN /\ frames' = [frames EXCEPT !.idx = frames.idx + 1]
                /\ pc' = "sci_loop"
                /\ log' = log
           ELSE /\ log' = Append(log, HandlerCall(frames.idx))
                /\ IF Unwrap(handler).kind = "Nothing"
                   THEN /\ frames' = [frames EXCEPT !.idx = frames.idx + 1]
                        /\ pc' = "sci_loop"
                   ELSE /\ frames' = [frames EXCEPT !.caller = "sci",
                                                    !.state = Unwrap(handler).state]
                        /\ pc' = "prepare_sleep_state"
    /\ UNCHANGED <<io, event_handlers, gpe0_block, result, budget>>
    /\ UNCHANGED Hw

----------------------------------------------------------------------------
(* hardware.rs: is_acpi_enabled, set_acpi_mode ; lib.rs: enable_acpi *)

\* let mut attempts = 3000;
ATTEMPTS == 3000

is_acpi_enabled_never == [status |-> Ok, value |-> FALSE, acc |-> <<>>]

\* result: [status, value, acc] ; AcpiBitRegister::get fails with an AcpiError
\* when the FADT control block is invalid, and unwrap_or(false) drops it
is_acpi_enabled ==
    LET State(r) ==
            CASE r.status = Ok ->
                    [status |-> Ok, value |-> get_from_raw(SCI_ENABLE, r.value),
                     acc |-> r.acc]
              [] r.status = Panic -> [status |-> Panic, value |-> FALSE, acc |-> r.acc]
              [] OTHER -> [status |-> Ok, value |-> FALSE, acc |-> r.acc]
    IN  IF fadt.smi_cmd_port = 0
        THEN [status |-> Ok, value |-> TRUE, acc |-> <<>>]
        ELSE State(read_register(SCI_ENABLE.parent))

Stall == Access("stall", 0, 0, {})

\* a step of initialize or of a top-level call has returned `r`
Leave(r, acc) ==
    /\ Return(r, acc)
    /\ UNCHANGED <<io, event_handlers, gpe0_block, budget>>

enable_acpi ==
    /\ Idle
    /\ frames' = [Frame0 EXCEPT !.op = "enable_acpi"]
    /\ pc' = "enable_acpi"
    /\ log' = <<>>
    /\ result' = "none"
    /\ budget' = budget - 1
    /\ UNCHANGED <<io, event_handlers, gpe0_block>>
    /\ UNCHANGED Hw

\* let state = self.is_acpi_enabled()?; if !state { self.set_acpi_mode(true)?; }
EnableAcpi ==
    /\ pc = "enable_acpi"
    /\ \E e \in {is_acpi_enabled} :
          CASE e.status = Panic -> Abort(e.acc)
            [] e.status = Ok /\ ~e.value ->
                  /\ pc' = "set_acpi_mode"
                  /\ log' = log \o e.acc
                  /\ UNCHANGED <<io, event_handlers, gpe0_block, frames, result, budget>>
            [] e.status = Ok /\ e.value /\ frames.op = "initialize" ->
                  /\ pc' = "parse_dsdt"
                  /\ log' = log \o e.acc
                  /\ UNCHANGED <<io, event_handlers, gpe0_block, frames, result, budget>>
            [] OTHER -> Leave("Ok", e.acc)
    /\ UNCHANGED Hw

no_mode_transition_never == FALSE

\* if self.fadt.acpi_enable == 0 && self.fadt.acpi_disable == 0
no_mode_transition == fadt.acpi_enable = 0 /\ fadt.acpi_disable = 0

\* set_acpi_mode(true) up to the poll loop
SetAcpiMode ==
    /\ pc = "set_acpi_mode"
    /\ IF no_mode_transition
       THEN Leave("ModeTransitionNotSupported", <<>>)
       ELSE \E w \in {write_address_space(io, "SystemIo", fadt.smi_cmd_port, 8,
                                          BitsOf(fadt.acpi_enable))} :
               IF w.status # Ok THEN Abort(w.acc)
               ELSE /\ io' = w.io
                    /\ log' = log \o w.acc
                    /\ frames' = [frames EXCEPT !.attempts = ATTEMPTS]
                    /\ pc' = "poll_acpi_enabled"
                    /\ UNCHANGED <<event_handlers, gpe0_block, result, budget>>
    /\ UNCHANGED Hw

attempts_left_two(attempts) == attempts - 2

\* attempts -= 1;
attempts_left(attempts) == attempts - 1

\* one iteration of `while attempts != 0`, and Err(EnableTimeout) after the last
PollAcpiEnabled ==
    /\ pc = "poll_acpi_enabled"
    /\ \E e \in {is_acpi_enabled} :
          CASE e.status = Panic -> Abort(e.acc)
            [] e.status = Ok /\ e.value /\ frames.op = "initialize" ->
                  /\ pc' = "parse_dsdt"
                  /\ log' = log \o e.acc
                  /\ UNCHANGED <<io, event_handlers, gpe0_block, frames, result, budget>>
            [] e.status = Ok /\ e.value /\ frames.op # "initialize" -> Leave("Ok", e.acc)
            [] e.status = Ok /\ ~e.value /\ attempts_left(frames.attempts) # 0 ->
                  /\ frames' = [frames EXCEPT !.attempts = attempts_left(frames.attempts)]
                  /\ pc' = "poll_acpi_enabled"
                  /\ log' = log \o e.acc \o <<Stall>>
                  /\ UNCHANGED <<io, event_handlers, gpe0_block, result, budget>>
            [] OTHER ->
                  /\ pc' = "returned"
                  /\ result' = "EnableTimeout"
                  /\ frames' = [frames EXCEPT !.attempts = 0]
                  /\ log' = log \o e.acc \o <<Stall>>
                  /\ UNCHANGED <<io, event_handlers, gpe0_block, budget>>
    /\ UNCHANGED Hw

\* the firmware answers the SMI command: it sets SCI_EN in PM1a Control
SmiAnswer(when) ==
    /\ pc = "poll_acpi_enabled"
    /\ when
    /\ LET reg == fadt.pm1a_control_block
           pos == reg.address * 8 + SCI_ENABLE.position
       IN  IF reg.address_space = "SystemIo"
           THEN /\ pos \notin io
                /\ io' = io \cup {pos}
                /\ mem' = mem
           ELSE /\ pos \notin mem
                /\ mem' = mem \cup {pos}
                /\ io' = io
    /\ UNCHANGED <<fadt, pm1_registers, aml, event_handlers, gpe0_block,
                   pc, frames, log, result, budget>>

\* the firmware answers at any time during the poll loop
SmiFirmware == SmiAnswer(TRUE)

\* the firmware answers before the first poll
SmiFirmwarePrompt == SmiAnswer(frames.attempts = ATTEMPTS)

----------------------------------------------------------------------------
(* lib.rs: initialize, configure_aml_interrupt_method *)

PATH_PIC == "\\_PIC"

\* AcpiInterruptMethod as u64
AcpiInterruptMethod == 0..2

initialize(interrupt_method) ==
    /\ Idle
    /\ frames' = [Frame0 EXCEPT !.op = "initialize",
                                !.interrupt_method = interrupt_method]
    /\ pc' = "enable_acpi"
    /\ log' = <<>>
    /\ result' = "none"
    /\ budget' = budget - 1
    /\ UNCHANGED <<io, event_handlers, gpe0_block>>
    /\ UNCHANGED Hw

\* if let Ok(dsdt) = self.tables.dsdt() { .. parse_table(dsdt) .. .unwrap() } ;
\* then self.initialize_events()? starts with the first fixed event
ParseDsdt ==
    /\ pc = "parse_dsdt"
    /\ CASE aml.dsdt = "absent" ->
              /\ log' = log
              /\ pc' = "set_read"
              /\ frames' = CallSet([frames EXCEPT !.dfe = 1], LIST[1].enable_register,
                                   FALSE, "disable_fixed_events")
         [] aml.dsdt = "valid" ->
              /\ log' = log \o <<Access("map_slice", 0, 0, {}),
                                 Access("aml_parse_table", 0, 0, {})>>
              /\ pc' = "set_read"
              /\ frames' = CallSet([frames EXCEPT !.dfe = 1], LIST[1].enable_register,
                                   FALSE, "disable_fixed_events")
         [] OTHER ->
              \* parse_table returned Err(e): .unwrap() panics
              /\ log' = log \o <<Access("map_slice", 0, 0, {}),
                                 Access("aml_parse_table", 0, 0, {})>>
              /\ pc' = "panicked"
              /\ frames' = frames
    /\ UNCHANGED <<io, event_handlers, gpe0_block, result, budget>>
    /\ UNCHANGED Hw

\* self.aml_context.initialize_objects()?;
InitializeObjects ==
    /\ pc = "initialize_objects"
    /\ IF aml.objects = "Ok"
       THEN /\ pc' = "configure_aml_interrupt_method"
            /\ log' = Append(log, Access("aml_initialize_objects", 0, 0, {}))
            /\ UNCHANGED <<frames, result>>
       ELSE Return(AmlErr, <<Access("aml_initialize_objects", 0, 0, {})>>)
    /\ UNCHANGED <<io, event_handlers, gpe0_block, budget>>
    /\ UNCHANGED Hw

\* self.configure_aml_interrupt_method(interrupt_method)?; Ok(())
ConfigureAmlInterruptMethod ==
    /\ pc = "configure_aml_interrupt_method"
    /\ Return(IF aml.pic \in {"Ok", "ValueDoesNotExist"} THEN "Ok" ELSE AmlErr,
              <<AmlInvoke(PATH_PIC, frames.interrupt_method)>>)
    /\ UNCHANGED <<io, event_handlers, gpe0_block, budget>>
    /\ UNCHANGED Hw

----------------------------------------------------------------------------
(* lib.rs: enter_sleep_state ; sleep.rs: the sleep engine *)

clear_slp_en_skipped(pm1_control) == pm1_control

\* pm1_control = sleep_enable_reg.set_raw(pm1_control, false)
clear_slp_en(pm1_control) == set_raw(SLEEP_ENABLE, pm1_control, FALSE)

enter_sleep_state(state) ==
    /\ Idle
    /\ frames' = [Frame0 EXCEPT !.op = "enter_sleep_state", !.caller = "top",
                                !.state = state]
    /\ pc' = "prepare_sleep_state"
    /\ log' = <<>>
    /\ result' = "none"
    /\ budget' = budget - 1
    /\ UNCHANGED <<io, event_handlers, gpe0_block>>
    /\ UNCHANGED Hw

\* enter_sleep_state returns Err(err): to the caller of the facade, or to
\* handle_fixed_event_sci, which drops it (.ok()) and visits the next event
SleepReturn(err, acc) ==
    IF frames.caller = "top"
    THEN Return(err, acc)
    ELSE /\ frames' = [frames EXCEPT !.idx = frames.idx + 1]
         /\ pc' = "sci_loop"
         /\ log' = log \o acc
         /\ UNCHANGED result

PrepareSleepState ==
    /\ pc = "prepare_sleep_state"
    /\ LET p == prepare_sleep_state(frames.state)
       IN  CASE p.status = Ok ->
                  /\ frames' = [frames EXCEPT !.sleep_type_a = p.a, !.sleep_type_b = p.b]
                  /\ pc' = "dispatch_sleep_command"
                  /\ log' = log \o p.acc
                  /\ UNCHANGED <<io, event_handlers, gpe0_block, result, budget>>
             [] p.status = Panic -> Abort(p.acc)
             [] OTHER ->
                  /\ SleepReturn(p.status, p.acc)
                  /\ UNCHANGED <<io, event_handlers, gpe0_block, budget>>
    /\ UNCHANGED Hw

\* dispatch_sleep_command, and acpi_hw_legacy_sleep up to the computation of
\* pm1a_control / pm1b_control
DispatchSleepCommand ==
    /\ pc = "dispatch_sleep_command"
    /\ LET a == frames.sleep_type_a
           b == frames.sleep_type_b
           r == read_register("Pm1Control")
           pm1_control == clear_slp_en(r.value)
       IN  IF a > 7 \/ b > 7 THEN Abort(<<>>)
           ELSE CASE r.status = Ok ->
                  /\ frames' = [frames EXCEPT
                        !.pm1_control = r.value,
                        !.pm1a_control = range_set_raw(SLEEP_TYPE, pm1_control, a),
                        !.pm1b_control = range_set_raw(SLEEP_TYPE, pm1_control, b)]
                  /\ pc' = "write_slp_typ"
                  /\ log' = log \o r.acc
                  /\ UNCHANGED <<io, event_handlers, gpe0_block, result, budget>>
             [] r.status = Panic -> Abort(r.acc)
             [] OTHER ->
                  /\ SleepReturn(r.status, r.acc)
                  /\ UNCHANGED <<io, event_handlers, gpe0_block, budget>>
    /\ UNCHANGED Hw

\* self.write_pm1_control(pm1a_control, pm1b_control)?
WriteSlpTyp ==
    /\ pc = "write_slp_typ"
    /\ LET w == write_pm1_control(io, frames.pm1a_control, frames.pm1b_control)
       IN  CASE w.status = Ok ->
                  /\ io' = w.io
                  /\ pc' = "flush"
                  /\ log' = log \o w.acc
                  /\ UNCHANGED <<event_handlers, gpe0_block, frames, result, budget>>
             [] w.status = Panic -> Abort(w.acc)
             [] OTHER ->
                  /\ SleepReturn(w.status, w.acc)
                  /\ UNCHANGED <<io, event_handlers, gpe0_block, budget>>
    /\ UNCHANGED Hw

\* core::arch::asm!("wbinvd; cli")
Flush ==
    /\ pc = "flush"
    /\ pc' = "write_slp_en"
    /\ log' = Append(log, Access("wbinvd", 0, 0, {}))
    /\ UNCHANGED <<io, event_handlers, gpe0_block, frames, result, budget>>
    /\ UNCHANGED Hw

\* self.write_pm1_control(.. SLP_EN set ..)? ; loop { hlt }
WriteSlpEn ==
    /\ pc = "write_slp_en"
    /\ LET w == write_pm1_control(io, set_raw(SLEEP_ENABLE, frames.pm1a_control, TRUE),
                                  set_raw(SLEEP_ENABLE, frames.pm1b_control, TRUE))
       IN  CASE w.status = Ok ->
                  /\ io' = w.io
                  /\ pc' = "halted"
                  /\ log' = log \o w.acc
                  /\ UNCHANGED <<event_handlers, gpe0_block, frames, result, budget>>
             [] w.status = Panic -> Abort(w.acc)
             [] OTHER ->
                  /\ SleepReturn(w.status, w.acc)
                  /\ UNCHANGED <<io, event_handlers, gpe0_block, budget>>
    /\ UNCHANGED Hw

----------------------------------------------------------------------------
(* The platform raises the status bit of a fixed event (in PM1a or PM1b    *)
(* Status) between two calls of the core.                                  *)

StatusPos(reg, bit) == reg.address * 8 + bit

HwRaise(e, half) ==
    /\ Idle
    /\ half = "b" => IsSome(pm1_registers.x_pm1b_status)
    /\ LET reg == IF half = "a" THEN pm1_registers.x_pm1a_status
                  ELSE Unwrap(pm1_registers.x_pm1b_status)
           pos == StatusPos(reg, LIST[e].status_register.position)
       IN  IF reg.address_space = "SystemIo"
           THEN /\ pos \notin io
                /\ io' = io \cup {pos}
                /\ mem' = mem
           ELSE /\ pos \notin mem
                /\ mem' = mem \cup {pos}
                /\ io' = io
    /\ budget' = budget - 1
    /\ UNCHANGED <<fadt, pm1_registers, aml, event_handlers, gpe0_block,
                   pc, frames, log, result>>

\* the accesses of handle_sci are not atomic with respect to the platform: the
\* hardware raises a status bit between two of them
SciRaise(e, half) ==
    /\ frames.op = "handle_sci"
    /\ pc \in {"sci_read_status", "sci_read_enable", "sci_loop", "set_read",
               "set_write", "sci_handler"}
    /\ half = "b" => IsSome(pm1_registers.x_pm1b_status)
    /\ LET reg == IF half = "a" THEN pm1_registers.x_pm1a_status
                  ELSE Unwrap(pm1_registers.x_pm1b_status)
           pos == StatusPos(reg, LIST[e].status_register.position)
       IN  IF reg.address_space = "SystemIo"
           THEN /\ pos \notin io
                /\ io' = io \cup {pos}
                /\ mem' = mem
           ELSE /\ pos \notin mem
                /\ mem' = mem \cup {pos}
                /\ io' = io
    /\ UNCHANGED <<fadt, pm1_registers, aml, event_handlers, gpe0_block,
                   pc, frames, log, result, budget>>

----------------------------------------------------------------------------
(* Platforms and initial states *)

GenericAddress(space, address, bit_width) ==
    [address_space |-> space, address |-> address, bit_width |-> bit_width,
     bit_offset |-> 0, access_size |-> "Undefined"]

\* port / memory addresses of the register blocks of the modelled platforms
Ports == [pm1a_event |-> 16, pm1b_event |-> 32, pm1a_control |-> 48,
          pm1b_control |-> 56, gpe0 |-> 64, sci_interrupt |-> 9]

\* fadt.pm1_registers(): Status, then Enable, in each PM1 event block
Pm1Registers(space, width, has_b) ==
    [x_pm1a_status |-> GenericAddress(space, Ports.pm1a_event, width),
     x_pm1a_enable |-> GenericAddress(space, Ports.pm1a_event + width \div 8, width),
     x_pm1b_status |-> IF has_b THEN Some(GenericAddress(space, Ports.pm1b_event, width))
                       ELSE None,
     x_pm1b_enable |-> IF has_b
                       THEN Some(GenericAddress(space, Ports.pm1b_event + width \div 8, width))
                       ELSE None]

Fadt(space, width, has_b, control_block_err, gpe_regs, has_gpe1) ==
    [pm1a_control_block |-> GenericAddress(space, Ports.pm1a_control, width),
     pm1b_control_block |-> IF has_b THEN Some(GenericAddress(space, Ports.pm1b_control, width))
                            ELSE None,
     control_block_err |-> control_block_err,
     gpe0_block |-> IF gpe_regs > 0 THEN Some(GenericAddress(space, Ports.gpe0, 8 * gpe_regs))
                    ELSE None,
     gpe0_block_length |-> 2 * gpe_regs,
     gpe1_block |-> IF has_gpe1 THEN Some(GenericAddress(space, Ports.gpe0 + 16, 8)) ELSE None,
     sci_interrupt |-> Ports.sci_interrupt,
     smi_cmd_port |-> 0, acpi_enable |-> 0, acpi_disable |-> 0]

\* the positions of a store that hold register `reg` with content `value`
Place(reg, value) == {reg.address * 8 + k : k \in value \cap (0..(reg.bit_width - 1))}
PlaceOpt(o, value) == IF IsSome(o) THEN Place(Unwrap(o), value) ELSE {}

\* AML values of the \_Sx objects
Integer(n) == [type |-> "Integer", value |-> n]
String == [type |-> "String", value |-> 0]
Package(elements) == [kind |-> "Package", elements |-> elements]
Missing == [kind |-> "Missing", elements |-> <<>>]
NotPackage == [kind |-> "Integer", elements |-> <<>>]

SleepObjects ==
    {Missing, NotPackage, Package(<<>>), Package(<<Integer(5)>>),
     Package(<<Integer(5), Integer(5)>>), Package(<<Integer(5), Integer(7), Integer(0)>>),
     Package(<<Integer(0), Integer(3)>>), Package(<<Integer(8), Integer(0)>>),
     Package(<<Integer(5), Integer(9)>>), Package(<<Integer(261), Integer(5)>>),
     Package(<<String, Integer(5)>>), Package(<<Integer(5), String>>)}

AmlOutcomes == {"Ok", "ValueDoesNotExist", "Fault"}

Aml(object, pts, sst) ==
    [namespace |-> [s \in AcpiSleepState |-> object], pts |-> pts, sst |-> sst,
     dsdt |-> "absent", objects |-> "Ok", pic |-> "Ok"]

\* the state of the platform: the content of the PM1 registers
Platform(sts_a, sts_b, en, ctl_a, ctl_b) ==
    Place(pm1_registers.x_pm1a_status, sts_a)
        \cup PlaceOpt(pm1_registers.x_pm1b_status, sts_b)
        \cup Place(pm1_registers.x_pm1a_enable, en)
        \cup PlaceOpt(pm1_registers.x_pm1b_enable, en)
        \cup Place(fadt.pm1a_control_block, ctl_a)
        \cup PlaceOpt(fadt.pm1b_control_block, ctl_b)

InitPlatform(space, sts_a, sts_b, en, ctl_a, ctl_b) ==
    /\ io = IF space = "SystemIo" THEN Platform(sts_a, sts_b, en, ctl_a, ctl_b) ELSE {}
    /\ mem = IF space = "SystemMemory" THEN Platform(sts_a, sts_b, en, ctl_a, ctl_b) ELSE {}

InitCore ==
    /\ gpe0_block = None
    /\ pc = "idle"
    /\ frames = Frame0
    /\ log = <<>>
    /\ result = "none"

AddressSpaces == {"SystemIo", "SystemMemory"}
RegisterWidths == {16, 32}

ControlSamples == {{}, {0}, {0, 10, 12, 13}, {0, 1, 2, 9, 11, 14, 15}}
StatusSamples == {{}, {0, 8}, {0, 5, 8, 9, 10}, {8, 11, 15}}
EnableSamples == {{}, {0, 8, 10}, {0, 5, 8, 9, 10}}

NoHandlers == [id \in EventHandlerId |-> None]
HandlerActions == {Nothing, EnterSleepState(5)}
HandlerSamples ==
    {NoHandlers,
     [NoHandlers EXCEPT !["PowerButton"] = Some(EnterSleepState(5))],
     [NoHandlers EXCEPT !["Timer"] = Some(Nothing), !["PowerButton"] = Some(Nothing),
                        !["Rtc"] = Some(EnterSleepState(3))],
     [NoHandlers EXCEPT !["Timer"] = Some(EnterSleepState(5)),
                        !["PowerButton"] = Some(Nothing)],
     [id \in EventHandlerId |-> Some(Nothing)]}

----------------------------------------------------------------------------
(* Specification of the sleep engine: enter_sleep_state on every platform  *)
(* and every \_Sx / \_PTS / \_SI._SST outcome                              *)

SleepInit ==
    /\ \E space \in AddressSpaces, width \in RegisterWidths, has_b \in BOOLEAN,
          err \in BOOLEAN :
          /\ pm1_registers = Pm1Registers(space, width, has_b)
          /\ fadt = Fadt(space, width, has_b, err, 0, FALSE)
          /\ \E ctl_a \in ControlSamples, ctl_b \in {{}, {1, 10, 13}} :
                InitPlatform(space, {}, {}, {}, ctl_a, IF has_b THEN ctl_b ELSE {})
    /\ \E object \in SleepObjects, pts \in AmlOutcomes, sst \in AmlOutcomes :
          aml = Aml(object, pts, sst)
    /\ event_handlers = NoHandlers
    /\ budget = MaxOps
    /\ InitCore

SleepSteps ==
    \/ PrepareSleepState
    \/ DispatchSleepCommand
    \/ WriteSlpTyp
    \/ Flush
    \/ WriteSlpEn

SleepNext ==
    \/ \E state \in AcpiSleepState : enter_sleep_state(state)
    \/ SleepSteps
    \/ Finish

SleepSpec == SleepInit /\ [][SleepNext]_vars

----------------------------------------------------------------------------
(* Specification of the whole core *)

ValidAml == Aml(Package(<<Integer(5), Integer(5)>>), "Ok", "Ok")
FaultAml == Aml(Package(<<Integer(5), Integer(5)>>), "Fault", "Ok")
MissingAml == Aml(Missing, "Ok", "Ok")

\* <<address space, register width, PM1b present, GPE1 present, AML>>
Configs ==
    {<<"SystemIo", 16, FALSE, FALSE, ValidAml>>,
     <<"SystemIo", 16, TRUE, FALSE, ValidAml>>,
     <<"SystemIo", 32, FALSE, FALSE, FaultAml>>,
     <<"SystemIo", 16, FALSE, TRUE, MissingAml>>,
     <<"SystemMemory", 16, FALSE, FALSE, ValidAml>>}

InitConfig ==
    /\ \E c \in Configs, gpe_regs \in 0..MaxGpeRegs :
          /\ pm1_registers = Pm1Registers(c[1], c[2], c[3])
          /\ fadt = Fadt(c[1], c[2], c[3], FALSE, gpe_regs, c[4])
          /\ aml = c[5]
    /\ InitCore

Init ==
    /\ InitConfig
    /\ \E sts_a \in StatusSamples, sts_b \in {{}, {9}}, en \in EnableSamples :
          /\ sts_b # {} => IsSome(pm1_registers.x_pm1b_status)
          /\ InitPlatform(pm1_registers.x_pm1a_status.address_space,
                          sts_a, sts_b, en, {0}, {})
    /\ event_handlers \in HandlerSamples
    /\ budget = MaxOps

Steps ==
    \/ SetRead
    \/ SetWriteEnable
    \/ SetWriteDisable
    \/ SetWriteAck
    \/ InitializeGpes
    \/ InitializeGpeBlock
    \/ Gpe1Block
    \/ install_sci_handler
    \/ SciReadStatus
    \/ SciReadEnable
    \/ SciLoop
    \/ SciHandler
    \/ SleepSteps
    \/ Finish

Next ==
    \/ \E e \in 1..Len(LIST), handler \in HandlerActions : enable_fixed_event(e, handler)
    \/ initialize_events
    \/ handle_sci
    \/ \E state \in AcpiSleepState : enter_sleep_state(state)
    \/ \E e \in 1..Len(LIST), half \in {"a", "b"} : HwRaise(e, half)
    \/ Steps

Spec == Init /\ [][Next]_vars

\* all fixed events disabled, no handler installed
DisabledInit ==
    /\ InitConfig
    /\ \E sts_a \in StatusSamples :
          InitPlatform(pm1_registers.x_pm1a_status.address_space, sts_a, {}, {}, {0}, {})
    /\ event_handlers = NoHandlers
    /\ budget = MaxSeq

DisabledSpec == DisabledInit /\ [][Next]_vars

----------------------------------------------------------------------------
(* Specification of the whole core together with the PM1 Status operations *)
(* that no caller reaches yet                                              *)

WORD == 0..31

StatusValues == {{}, PM1_STATUS_PRESERVED_BITS, WORD, {0, 8, 11, 15}, {11, 31}}

StatusInit ==
    /\ InitConfig
    /\ \E sts_a \in StatusSamples, sts_b \in {{}, {9}} :
          /\ sts_b # {} => IsSome(pm1_registers.x_pm1b_status)
          /\ InitPlatform(pm1_registers.x_pm1a_status.address_space,
                          sts_a, sts_b, {0, 8, 10}, {0}, {})
    /\ event_handlers \in HandlerSamples
    /\ budget = MaxOps

StatusNext ==
    \/ Next
    \/ \E value \in StatusValues : write_status(value)
    \/ WriteStatus
    \/ set_wake_status
    \/ SetWrite
    \/ clear_fixed_events
    \/ ClearFixedEvents

StatusSpec == StatusInit /\ [][StatusNext]_vars

----------------------------------------------------------------------------
(* Specification of the PM1 Enable round trip on every backing of the pair *)

\* <<address space, register width, PM1b present>>
Backings == AddressSpaces \X RegisterWidths \X BOOLEAN

WordSamples == {{}, {0}, {0, 8, 10}, {5, 9, 15}, {16}, {0, 31}, WORD}

RoundTripInit ==
    /\ \E c \in Backings, en \in EnableSamples :
          /\ pm1_registers = Pm1Registers(c[1], c[2], c[3])
          /\ fadt = Fadt(c[1], c[2], c[3], FALSE, 0, FALSE)
          /\ InitPlatform(c[1], {}, {}, en, {0}, {})
    /\ aml = ValidAml
    /\ event_handlers = NoHandlers
    /\ budget = MaxOps
    /\ InitCore

RoundTripNext ==
    \/ \E value \in WordSamples : write_enable(value)
    \/ WriteEnable
    \/ ReadEnable
    \/ Finish

RoundTripSpec == RoundTripInit /\ [][RoundTripNext]_vars

----------------------------------------------------------------------------
(* Specification of GPE block creation for every block length and base *)

MaxBlockRegs == 4

\* block_base_number: 0 for GPE0, FADT.gpe1_base (a u8) for GPE1
GpeBaseNumbers == {0, 16, 255}

GpeInit ==
    /\ \E space \in AddressSpaces, length \in 0..(2 * MaxBlockRegs) :
          /\ pm1_registers = Pm1Registers(space, 16, FALSE)
          /\ fadt = [Fadt(space, 16, FALSE, FALSE, 0, FALSE) EXCEPT
                        !.gpe0_block = Some(GenericAddress(space, Ports.gpe0, 8)),
                        !.gpe0_block_length = length]
          /\ InitPlatform(space, {}, {}, {}, {0}, {})
    /\ aml = ValidAml
    /\ event_handlers = NoHandlers
    /\ budget = MaxOps
    /\ InitCore

GpeNext ==
    \/ \E block_base_number \in GpeBaseNumbers : initialize_gpe_block(block_base_number)
    \/ InitializeGpeBlock
    \/ Finish

GpeSpec == GpeInit /\ [][GpeNext]_vars

----------------------------------------------------------------------------
(* Specification of the whole core on a platform with pending GPEs: the    *)
(* firmware may leave GPE enable and status bits set, and the hardware may *)
(* raise a GPE between two calls of the core                               *)

GpeRegisters == fadt.gpe0_block_length \div 2
GpeStatusCover ==
    IF IsSome(fadt.gpe0_block)
    THEN Cover(Unwrap(fadt.gpe0_block).address, 8 * GpeRegisters) ELSE {}
GpeEnableCover ==
    IF IsSome(fadt.gpe0_block)
    THEN Cover(Unwrap(fadt.gpe0_block).address + GpeRegisters, 8 * GpeRegisters) ELSE {}

\* offsets, within the status and the enable registers, of the bits left set
GpePendingSamples == {<<{}, {}>>, <<{3}, {}>>, <<{0, 3}, {1}>>, <<{7}, {0, 7}>>}

GpeBits(sample) ==
    {p \in GpeStatusCover : \E k \in sample[1] : p = Unwrap(fadt.gpe0_block).address * 8 + k}
        \cup {p \in GpeEnableCover :
                 \E k \in sample[2] : p = (Unwrap(fadt.gpe0_block).address + GpeRegisters) * 8 + k}

PendingInit ==
    /\ InitConfig
    /\ \E sts_a \in {{}, {0, 8}}, sample \in GpePendingSamples :
          /\ sample # <<{}, {}>> => IsSome(fadt.gpe0_block)
          /\ \E store \in {Platform(sts_a, {}, {}, {0}, {}) \cup GpeBits(sample)} :
                IF pm1_registers.x_pm1a_status.address_space = "SystemIo"
                THEN io = store /\ mem = {}
                ELSE io = {} /\ mem = store
    /\ event_handlers = NoHandlers
    /\ budget = MaxSeq

\* the hardware latches a general-purpose event
GpeRaise(bit) ==
    /\ Idle
    /\ IsSome(fadt.gpe0_block)
    /\ \E pos \in {Unwrap(fadt.gpe0_block).address * 8 + bit} :
          IF Unwrap(fadt.gpe0_block).address_space = "SystemIo"
          THEN pos \notin io /\ io' = io \cup {pos} /\ mem' = mem
          ELSE pos \notin mem /\ mem' = mem \cup {pos} /\ io' = io
    /\ UNCHANGED <<fadt, pm1_registers, aml, event_handlers, gpe0_block,
                   pc, frames, log, result, budget>>

PendingNext ==
    \/ Next
    \/ \E bit \in {3} : GpeRaise(bit)

PendingSpec == PendingInit /\ [][PendingNext]_vars

----------------------------------------------------------------------------
(* Specification of the Generic Address layer: access_bit_width and        *)
(* read_address on sampled registers over sampled store contents           *)

AccessSizes == {"Undefined", "ByteAccess", "WordAccess", "DWordAccess", "QWordAccess"}

RegisterSamples ==
    [address_space : AddressSpaces,
     address : {8192, 8194, 8196, 257},
     bit_width : {3, 8, 12, 16, 24, 32, 64, 100},
     bit_offset : {0, 4},
     access_size : AccessSizes]

\* the bytes around the sampled addresses
SampledBytes == Cover(256, 128) \cup Cover(8192, 128)

ContentSamples == {{}, SampledBytes, {p \in SampledBytes : p % 5 \in {0, 3}}}

AddressInit ==
    /\ pm1_registers = Pm1Registers("SystemIo", 16, FALSE)
    /\ fadt = Fadt("SystemIo", 16, FALSE, FALSE, 0, FALSE)
    /\ \E content \in ContentSamples : io = content /\ mem = content
    /\ aml = ValidAml
    /\ event_handlers = NoHandlers
    /\ budget = MaxOps
    /\ InitCore

AddressNext ==
    \/ \E register \in RegisterSamples : call_access_bit_width(register)
    \/ AccessBitWidth
    \/ \E reg \in RegisterSamples : call_read_address(reg)
    \/ ReadAddress
    \/ Finish

AddressSpec == AddressInit /\ [][AddressNext]_vars

----------------------------------------------------------------------------
(* Specification of handle_sci on a platform that raises the status bits   *)
(* of Timer and Power Button while the call is running                     *)

RaisedEvents == {1, 3}

ConcurrentInit ==
    /\ \E has_b \in BOOLEAN :
          /\ pm1_registers = Pm1Registers("SystemIo", 16, has_b)
          /\ fadt = Fadt("SystemIo", 16, has_b, FALSE, 0, FALSE)
    /\ \E sts_a \in {{0}, {0, 8}} :
          InitPlatform("SystemIo", sts_a, {}, {0, 8, 10}, {0}, {})
    /\ aml = ValidAml
    /\ event_handlers \in {[id \in EventHandlerId |-> Some(Nothing)],
                           [NoHandlers EXCEPT !["Timer"] = Some(Nothing)]}
    /\ budget = MaxOps
    /\ InitCore

ConcurrentNext ==
    \/ handle_sci
    \/ SciReadStatus
    \/ SciReadEnable
    \/ SciLoop
    \/ SetRead
    \/ SetWriteAck
    \/ SciHandler
    \/ \E e \in RaisedEvents, half \in {"a", "b"} : SciRaise(e, half)
    \/ Finish

ConcurrentSpec == ConcurrentInit /\ [][ConcurrentNext]_vars

----------------------------------------------------------------------------
(* Observations on the log of the current call *)

IsWrite(x, reg) == x.op = "io_write" /\ x.address = reg.address
IsWriteOpt(x, o) == IsSome(o) /\ IsWrite(x, Unwrap(o))
IsRead(x, reg) == x.op \in {"io_read", "mem_read"} /\ x.address = reg.address
IsReadOpt(x, o) == IsSome(o) /\ IsRead(x, Unwrap(o))

ControlWrite(x) ==
    IsWrite(x, fadt.pm1a_control_block) \/ IsWriteOpt(x, fadt.pm1b_control_block)
ControlRead(x) ==
    IsRead(x, fadt.pm1a_control_block) \/ IsReadOpt(x, fadt.pm1b_control_block)
StatusWrite(x) ==
    IsWrite(x, pm1_registers.x_pm1a_status) \/ IsWriteOpt(x, pm1_registers.x_pm1b_status)
EnableWrite(x) ==
    IsWrite(x, pm1_registers.x_pm1a_enable) \/ IsWriteOpt(x, pm1_registers.x_pm1b_enable)

IsPlatformWrite(x) == x.op = "io_write"
Writes == SelectSeq(log, IsPlatformWrite)

\* the sleep type the sequence programs into the half that x writes
SleepTypeOf(x) ==
    IF IsWrite(x, fadt.pm1a_control_block) THEN frames.sleep_type_a
    ELSE frames.sleep_type_b

----------------------------------------------------------------------------
(* Claims about the sleep engine, checked under SleepSpec *)

SlpEnWritten == \E i \in DOMAIN log : ControlWrite(log[i]) /\ 13 \in log[i].value

C1_OrderInLog ==
    \A i \in DOMAIN log :
        (ControlWrite(log[i]) /\ 13 \in log[i].value) =>
            \E f \in 1..(i - 1) :
                /\ log[f].op = "wbinvd"
                /\ \E t \in 1..(f - 1) :
                      /\ ControlWrite(log[t])
                      /\ log[t].address = log[i].address
                      /\ 13 \notin log[t].value
                      /\ get_bits(log[t].value, 10, 13) = BitsOf(SleepTypeOf(log[t]))

\* C1: in enter_sleep_state every PM1 Control write with SLP_EN = 1 comes
\* after a cache flush, which comes after a PM1 Control write to the same half
\* that carries the sleep type with SLP_EN = 0; once SLP_EN has been written
\* the CPU is halted and the call never returns.
C1_SleepSequenceOrder ==
    /\ [](C1_OrderInLog /\ (SlpEnWritten => pc = "halted"))
    /\ [][pc = "halted" => pc' = "halted"]_vars

C1_Witness ==
    /\ pc = "halted"
    /\ frames.caller = "top"
    /\ IsSome(fadt.pm1b_control_block)
    /\ 13 \in frames.pm1_control
    /\ Len(Writes) = 4

\* C2: in the sleep sequence, the first read of PM1 Control comes after two
\* PM1 Status writes, the second of which writes 1 to WAKE_STATUS (bit 15).
C2_StatusClearedBeforeControlRead ==
    \A i \in DOMAIN log :
        ControlRead(log[i]) =>
            \E j \in 1..(i - 1), k \in 1..(i - 1) :
                /\ j < k
                /\ StatusWrite(log[j])
                /\ StatusWrite(log[k])
                /\ 15 \in log[k].value

ExpectedControl(c, sleep_type, width) ==
    AsU((c \ {10, 11, 12, 13}) \cup {10 + k : k \in BitsOf(sleep_type)}, width)

ExpectedControlWrites(slp_en) ==
    LET a_reg == fadt.pm1a_control_block
        with_en(v) == IF slp_en THEN v \cup {13} ELSE v
        wa == Access("io_write", a_reg.address, a_reg.bit_width,
                     with_en(ExpectedControl(frames.pm1_control, frames.sleep_type_a,
                                             a_reg.bit_width)))
    IN  IF IsSome(fadt.pm1b_control_block)
        THEN LET b_reg == Unwrap(fadt.pm1b_control_block)
             IN  <<wa, Access("io_write", b_reg.address, b_reg.bit_width,
                              with_en(ExpectedControl(frames.pm1_control,
                                                      frames.sleep_type_b,
                                                      b_reg.bit_width)))>>
        ELSE <<wa>>

\* C3: with c the PM1 Control value read, the first write of the sequence
\* puts c with bit 13 cleared and bits 10..12 replaced by a into half A and
\* the same with b into half B (if present); the second write puts the same
\* values with bit 13 set; these are the only platform writes of the call.
C3_ControlValues ==
    /\ pc \in {"flush", "write_slp_en"} => Writes = ExpectedControlWrites(FALSE)
    /\ pc = "halted" =>
          /\ Writes = ExpectedControlWrites(FALSE) \o ExpectedControlWrites(TRUE)
          /\ PortRead(io, fadt.pm1a_control_block.address,
                      fadt.pm1a_control_block.bit_width)
                = ExpectedControlWrites(TRUE)[1].value

C3_Witness ==
    /\ pc = "halted"
    /\ IsSome(fadt.pm1b_control_block)
    /\ frames.sleep_type_a # frames.sleep_type_b
    /\ {10, 12, 13} \subseteq frames.pm1_control
    /\ 11 \notin frames.pm1_control

\* C4: dispatch_sleep_command(a, b) with a > 7 or b > 7 returns
\* InvalidSleepValues(a, b) and performs no register write.
C4_InvalidSleepValuesReturned ==
    (frames.sleep_type_a > 7 \/ frames.sleep_type_b > 7) =>
        /\ pc \in {"dispatch_sleep_command", "returned"}
        /\ pc = "returned" => result = "InvalidSleepValues"
        /\ Writes = <<>>

SleepObjectOf(state) == aml.namespace[state]

Unusable(object) ==
    \/ object.kind # "Package"
    \/ /\ Len(object.elements) >= 2
       /\ \/ object.elements[1].type # "Integer"
          \/ object.elements[2].type # "Integer"

Usable(object) ==
    /\ object.kind = "Package"
    /\ Len(object.elements) >= 2
    /\ object.elements[1].type = "Integer"
    /\ object.elements[2].type = "Integer"

\* C5: enter_sleep_state(S) returns MissingSleepMethod when \_Sx is not in
\* the namespace and InvalidSleepMethod when it is not a Package or its first
\* two elements are not integers, without a platform write and without
\* aborting.
C5_UnusableSleepObjectIsAnError ==
    (/\ frames.op = "enter_sleep_state"
     /\ pc # "prepare_sleep_state"
     /\ Unusable(SleepObjectOf(frames.state))) =>
        /\ pc = "returned"
        /\ result = IF SleepObjectOf(frames.state).kind = "Missing"
                    THEN "MissingSleepMethod" ELSE "InvalidSleepMethod"
        /\ Writes = <<>>

\* C6: for every sleep state S with a valid \_Sx package, prepare_sleep_state(S)
\* returns Ok((a, b)) from \_Sx when \_PTS and \_SI._SST succeed or are absent;
\* when either fails with another AML error the call returns that error and
\* no PM1 Control write is made.
C6_PrepareSleepState ==
    [][(pc = "prepare_sleep_state" /\ Usable(SleepObjectOf(frames.state))) =>
          IF aml.pts \in {"Ok", "ValueDoesNotExist"} /\ aml.sst \in {"Ok", "ValueDoesNotExist"}
          THEN /\ pc' = "dispatch_sleep_command"
               /\ frames'.sleep_type_a = SleepObjectOf(frames.state).elements[1].value % 256
               /\ frames'.sleep_type_b = SleepObjectOf(frames.state).elements[2].value % 256
          ELSE /\ pc' = "returned"
               /\ result' = AmlErr
               /\ io' = io
               /\ \A i \in DOMAIN log' : ~ControlWrite(log'[i])]_vars

----------------------------------------------------------------------------
(* Claims about the fixed events, checked under Spec and DisabledSpec *)

StoreOf(reg) == IF reg.address_space = "SystemIo" THEN io ELSE mem
Content(reg) == PortRead(StoreOf(reg), reg.address, reg.bit_width)
ContentOpt(o) == IF IsSome(o) THEN Content(Unwrap(o)) ELSE {}

\* the bits that are 1 in PM1a or PM1b Enable / Status on the platform
HwEnable == Content(pm1_registers.x_pm1a_enable) \cup ContentOpt(pm1_registers.x_pm1b_enable)
HwStatus == Content(pm1_registers.x_pm1a_status) \cup ContentOpt(pm1_registers.x_pm1b_status)

EnableBit(e) == LIST[e].enable_register.position
StatusBit(e) == LIST[e].status_register.position
HandlerOf(e) == event_handlers[LIST[e].handler_id]

\* C7: when enable_fixed_event(e, h) returns Ok, reading PM1 Enable yields a
\* value with e's enable bit set and the handler table maps e.handler_id to h.
C7_EnabledAndInstalled ==
    (pc = "returned" /\ frames.op = "enable_fixed_event" /\ result = "Ok") =>
        /\ read_register("Pm1Enable").status = Ok
        /\ EnableBit(frames.event) \in read_register("Pm1Enable").value
        /\ HandlerOf(frames.event) = Some(frames.handler)

C7_Witness ==
    /\ pc = "returned"
    /\ frames.op = "enable_fixed_event"
    /\ result = "Ok"
    /\ IsSome(frames.replaced)
    /\ Unwrap(frames.replaced) # frames.handler
    /\ IsSome(pm1_registers.x_pm1b_enable)

C8_EnabledHasHandler ==
    \A e \in 1..Len(LIST) : EnableBit(e) \in HwEnable => IsSome(HandlerOf(e))

\* C8: starting with all fixed events disabled and no handler installed, in
\* every state (between and inside the calls of initialize_events,
\* enable_fixed_event and handle_sci) a fixed event whose enable bit is set in
\* PM1 Enable has a handler in the handler table, and no step removes a handler.
C8_HandlerBeforeEnable ==
    /\ []C8_EnabledHasHandler
    /\ [][\A id \in EventHandlerId :
             IsSome(event_handlers[id]) => IsSome(event_handlers'[id])]_vars

C8_Witness ==
    /\ pc = "sci_handler"
    /\ EnableBit(frames.idx) \in HwEnable
    /\ IsSome(HandlerOf(frames.idx))

IsHandlerCall(x) == x.op = "handler"
Invoked == LET calls == SelectSeq(log, IsHandlerCall)
           IN  [k \in DOMAIN calls |-> calls[k].address]

\* e is enabled and pending in the values read at the start of handle_sci, and
\* has a handler
Due(e) ==
    /\ EnableBit(e) \in frames.fixed_en
    /\ StatusBit(e) \in frames.fixed_sts
    /\ IsSome(HandlerOf(e))
DueSeq == SelectSeq(<<1, 2, 3, 4, 5>>, Due)

IsPrefix(s, t) == Len(s) <= Len(t) /\ \A k \in DOMAIN s : s[k] = t[k]

\* C9 as stated: when a handle_sci call is over (it returned, or the CPU was
\* halted by the sleep engine), the handlers invoked are exactly those of the
\* events enabled and pending at the start that have a handler, once each, in
\* the declared order.
C9_InvokedIffDue ==
    (frames.op = "handle_sci" /\ pc \in {"returned", "halted"}) => Invoked = DueSeq

\* C9 amended: in a handle_sci call a handler is invoked only for an event
\* that was enabled and pending at the start and has a handler, at most once,
\* in the declared order, with no such event skipped; when the call returns,
\* the handler of every such event has been invoked.
C9_InvokedInOrder ==
    frames.op = "handle_sci" =>
        /\ IsPrefix(Invoked, DueSeq)
        /\ pc = "returned" => Invoked = DueSeq

C9_Witness ==
    /\ frames.op = "handle_sci"
    /\ pc = "returned"
    /\ Len(Invoked) >= 2
    /\ \E e \in 1..Len(LIST) : StatusBit(e) \in frames.fixed_sts /\ ~Due(e)

C10_AckBeforeHandler ==
    \A i \in DOMAIN log :
        IsHandlerCall(log[i]) =>
            \E j \in 1..(i - 1) :
                /\ IsWrite(log[j], pm1_registers.x_pm1a_status)
                /\ StatusBit(log[i].address) \in log[j].value
                /\ \A k \in (j + 1)..(i - 1) : ~IsHandlerCall(log[k])

\* C10: in handle_sci the write of 1 to the status bit of an enabled and
\* pending event precedes the invocation of its handler; when handle_sci
\* returns, every such event whose handler returned Nothing has its status
\* bit 0 and its enable bit still 1; handle_sci never writes PM1 Enable.
C10_PendingToIdle ==
    frames.op = "handle_sci" =>
        /\ C10_AckBeforeHandler
        /\ \A i \in DOMAIN log : ~EnableWrite(log[i])
        /\ pc = "returned" =>
              \A e \in 1..Len(LIST) :
                  (Due(e) /\ HandlerOf(e) = Some(Nothing)) =>
                      /\ StatusBit(e) \notin HwStatus
                      /\ EnableBit(e) \in HwEnable

C10_Witness ==
    /\ frames.op = "handle_sci"
    /\ pc = "returned"
    /\ Due(3)
    /\ HandlerOf(3) = Some(Nothing)
    /\ 15 \in frames.fixed_sts


----------------------------------------------------------------------------
(* Specification of ACPI mode control: enable_acpi on platforms with and   *)
(* without an SMI command port, with firmware that answers or stays silent *)

\* the SMI command port and the values the FADT gives for it
Smi == [cmd_port |-> 178, acpi_enable |-> 161, acpi_disable |-> 160]

\* <<address space, PM1b present, FADT control block invalid>>
ModeConfigs ==
    {<<"SystemIo", FALSE, FALSE>>,
     <<"SystemIo", TRUE, FALSE>>,
     <<"SystemMemory", FALSE, FALSE>>,
     <<"SystemIo", FALSE, TRUE>>}

\* <<smi_cmd_port, acpi_enable, acpi_disable>>
SmiSamples ==
    {<<0, 0, 0>>, <<0, Smi.acpi_enable, Smi.acpi_disable>>, <<Smi.cmd_port, 0, 0>>,
     <<Smi.cmd_port, Smi.acpi_enable, Smi.acpi_disable>>,
     <<Smi.cmd_port, 0, Smi.acpi_disable>>}

BaseModeConfig == <<"SystemIo", FALSE, FALSE>>
BaseSmi == <<Smi.cmd_port, Smi.acpi_enable, Smi.acpi_disable>>

ModeInit ==
    /\ \E c \in ModeConfigs, smi \in SmiSamples :
          /\ pm1_registers = Pm1Registers(c[1], 16, c[2])
          /\ fadt = [Fadt(c[1], 16, c[2], c[3], 0, FALSE) EXCEPT
                        !.smi_cmd_port = smi[1], !.acpi_enable = smi[2],
                        !.acpi_disable = smi[3]]
          /\ \E ctl_a \in {{}, {0}, {1, 10}}, ctl_b \in {{}, {0}} :
                /\ ctl_b # {} => c[2]
                /\ InitPlatform(c[1], {}, {}, {}, ctl_a, ctl_b)
                \* the variations are sampled on the base platform only
                /\ c # BaseModeConfig => smi \in {<<0, 0, 0>>, BaseSmi}
                /\ ctl_a = {1, 10} <=> smi = <<Smi.cmd_port, 0, Smi.acpi_disable>>
    /\ aml = ValidAml
    /\ event_handlers = NoHandlers
    /\ budget = MaxOps
    /\ InitCore

ModeSteps ==
    \/ EnableAcpi
    \/ SetAcpiMode
    \/ PollAcpiEnabled
    \/ SmiFirmware

ModeNext ==
    \/ enable_acpi
    \/ ModeSteps
    \/ Finish

ModeSpec == ModeInit /\ [][ModeNext]_vars

----------------------------------------------------------------------------
(* Specification of initialize: every outcome of the AML steps and of the  *)
(* handler installation, with and without GPE blocks and a mode transition *)

DsdtSamples == {"absent", "valid", "invalid"}

\* the ways ACPI mode can stand at the start: <<smi_cmd_port, acpi_enable,
\* acpi_disable, PM1a Control>>
ModeSamples ==
    {<<0, 0, 0, {}>>, <<Smi.cmd_port, Smi.acpi_enable, Smi.acpi_disable, {0}>>,
     <<Smi.cmd_port, Smi.acpi_enable, Smi.acpi_disable, {}>>,
     <<Smi.cmd_port, 0, 0, {1}>>}

\* ACPI is enabled from the start
SettledModes == {m \in ModeSamples : m[1] = 0 \/ 0 \in m[4]}

BaseAml == [ValidAml EXCEPT !.dsdt = "valid"]

InitializeInit ==
    /\ \E c \in Configs, gpe_regs \in 0..MaxGpeRegs, m \in ModeSamples :
          /\ pm1_registers = Pm1Registers(c[1], c[2], c[3])
          /\ fadt = [Fadt(c[1], c[2], c[3], FALSE, gpe_regs, c[4]) EXCEPT
                        !.smi_cmd_port = m[1], !.acpi_enable = m[2],
                        !.acpi_disable = m[3]]
          /\ InitPlatform(c[1], {0, 8}, {}, {0, 8, 10}, m[4], {})
          /\ \E dsdt \in DsdtSamples, objects \in {"Ok", "Fault"}, pic \in AmlOutcomes :
                /\ aml = [c[5] EXCEPT !.dsdt = dsdt, !.objects = objects, !.pic = pic]
                \* the AML outcomes are sampled on the base platform, the mode
                \* transition on the base platform with a valid DSDT
                /\ c # <<"SystemIo", 16, FALSE, FALSE, ValidAml>>
                      => (m \in SettledModes /\ gpe_regs = 0
                          /\ aml = [c[5] EXCEPT !.dsdt = "valid"])
                /\ m \notin SettledModes => (aml = BaseAml /\ gpe_regs = MaxGpeRegs)
    /\ event_handlers = NoHandlers
    /\ budget = MaxOps
    /\ InitCore

InitializeSteps ==
    \/ EnableAcpi
    \/ SetAcpiMode
    \/ PollAcpiEnabled
    \/ SmiFirmwarePrompt
    \/ ParseDsdt
    \/ SetRead
    \/ SetWriteDisable
    \/ InitializeGpes
    \/ InitializeGpeBlock
    \/ Gpe1Block
    \/ install_sci_handler
    \/ InitializeObjects
    \/ ConfigureAmlInterruptMethod
    \/ Finish

InitializeNext ==
    \/ \E interrupt_method \in AcpiInterruptMethod : initialize(interrupt_method)
    \/ InitializeSteps

InitializeSpec == InitializeInit /\ [][InitializeNext]_vars

----------------------------------------------------------------------------
(* Claims about the acknowledgement in handle_sci, checked under Spec *)

\* the acknowledging write of handle_fixed_event_sci has completed
AckStep ==
    /\ pc = "set_write"
    /\ frames.set_ret = "handle_fixed_event_sci"
    /\ pc' = "sci_handler"

\* C11: on write-1-to-clear PM1 Status hardware the acknowledgement of the
\* dispatched event e leaves the status bit of every other fixed event and
\* WAKE_STATUS as it was before the acknowledgement.
C11_AckPreservesOthers ==
    [][AckStep =>
          \A b \in (EventBits \cup {WAKE_STATUS.position}) \ {frames.bitreg.position} :
              (b \in HwStatus') <=> (b \in HwStatus)]_vars

\* C12: whatever a handler returns and whatever the AML namespace holds,
\* handle_sci never aborts: a failed acknowledgement or dispatch is dropped,
\* the remaining events are visited and the call returns, unless a sleep
\* sequence completed and halted the CPU.
C12_SciNeverAborts ==
    frames.op = "handle_sci" => pc # "panicked"

----------------------------------------------------------------------------
(* Claims about ACPI mode control, checked under ModeSpec *)

IsStall(x) == x.op = "stall"
IsSmiWrite(x) == x.op = "io_write" /\ x.address = fadt.smi_cmd_port
IsSciEnableRead(x) == IsRead(x, fadt.pm1a_control_block)
SmiWrites == SelectSeq(log, IsSmiWrite)
\* the part of the log that follows the SMI command write: the poll loop
PollLog ==
    LET at == CHOOSE i \in DOMAIN log : IsSmiWrite(log[i])
    IN  SubSeq(log, at + 1, Len(log))
Stalls == SelectSeq(PollLog, IsStall)
PollReads == SelectSeq(PollLog, IsSciEnableRead)
SciEnableSeen(x) == SCI_ENABLE.position \in x.value

C13_PollsCounted ==
    (pc = "returned" /\ SmiWrites # <<>>) =>
        \E reads \in {PollReads}, stalls \in {Stalls} :
            /\ result \in {"Ok", "EnableTimeout"}
            /\ result = "EnableTimeout" =>
                  /\ Len(stalls) = ATTEMPTS
                  /\ ~fadt.control_block_err =>
                        /\ Len(reads) = ATTEMPTS
                        /\ \A k \in DOMAIN reads : ~SciEnableSeen(reads[k])
                  /\ IsStall(log[Len(log)])
            /\ result = "Ok" =>
                  /\ Len(reads) = Len(stalls) + 1
                  /\ Len(reads) <= ATTEMPTS
                  /\ \A k \in DOMAIN reads : SciEnableSeen(reads[k]) <=> k = Len(reads)

\* C13: set_acpi_mode(true) terminates. The poll loop has a counter that
\* starts at 3000 and drops by one with every unsuccessful poll; when
\* SCI_ENABLE is never seen set the call has made exactly 3000 polls, each
\* followed by a stall, and returns EnableTimeout; when it is seen set on poll
\* k the call returns Ok after exactly k poll reads and k - 1 stalls.
C13_PollTerminates ==
    /\ [](C13_PollsCounted /\ (pc = "poll_acpi_enabled" => frames.attempts \in 1..ATTEMPTS))
    /\ [][(pc = "poll_acpi_enabled" /\ frames' # frames) =>
             \/ pc' \in {"returned", "parse_dsdt", "panicked"}
             \/ /\ pc' = "poll_acpi_enabled"
                /\ frames'.attempts = frames.attempts - 1
                /\ IsStall(log'[Len(log')])]_vars

C13_Witness ==
    /\ pc = "returned"
    /\ result = "Ok"
    /\ ~fadt.control_block_err
    /\ Len(SmiWrites) = 1
    /\ Len(PollReads) = 2
    /\ Len(Stalls) = 1

\* C14: set_acpi_mode(true) with FADT.acpi_enable = 0 and acpi_disable = 0
\* returns ModeTransitionNotSupported; it writes no port, polls nothing and
\* leaves the hardware as it was.
C14_ModeTransitionNotSupported ==
    [][(pc = "set_acpi_mode" /\ fadt.acpi_enable = 0 /\ fadt.acpi_disable = 0) =>
          /\ pc' = "returned"
          /\ result' = "ModeTransitionNotSupported"
          /\ log' = log
          /\ io' = io
          /\ mem' = mem]_vars

C14_Witness ==
    /\ pc = "returned"
    /\ result = "ModeTransitionNotSupported"
    /\ fadt.acpi_enable = 0 /\ fadt.acpi_disable = 0
    /\ fadt.smi_cmd_port # 0
    /\ Writes = <<>>

\* is_acpi_enabled found ACPI enabled at the start of the call: there is no
\* SMI command port, or the first read of PM1 Control has SCI_EN set
AlreadyEnabled ==
    \/ fadt.smi_cmd_port = 0
    \/ /\ log # <<>>
       /\ \E i \in 1..Min(2, Len(log)) : ControlRead(log[i]) /\ SciEnableSeen(log[i])

\* C15: enable_acpi writes the SMI command port at most once per call, and
\* only when there is an SMI command port and SCI_ENABLE was not read as 1;
\* the write is the 8-bit value FADT.acpi_enable and it is the only port
\* write of the call. When ACPI is already enabled (no SMI command port, in
\* which case nothing is read, or SCI_ENABLE reads 1) the call returns Ok.
C15_SmiWriteOnlyWhenDisabled ==
    frames.op = "enable_acpi" =>
        \E writes \in {Writes} :
            /\ Len(writes) <= 1
            /\ \A k \in DOMAIN writes :
                  /\ writes[k] = Access("io_write", fadt.smi_cmd_port, 8,
                                        BitsOf(fadt.acpi_enable))
                  /\ ~AlreadyEnabled
                  /\ ~no_mode_transition
            /\ (pc = "poll_acpi_enabled" \/ (pc = "returned" /\ \E i \in DOMAIN log : IsStall(log[i])))
                  => Len(writes) = 1
            /\ (AlreadyEnabled /\ pc \notin {"enable_acpi", "panicked"}) =>
                  /\ pc = "returned"
                  /\ result = "Ok"
                  /\ fadt.smi_cmd_port = 0 => log = <<>>

C15_Witness ==
    /\ frames.op = "enable_acpi"
    /\ pc = "returned"
    /\ result = "Ok"
    /\ fadt.smi_cmd_port # 0
    /\ AlreadyEnabled
    /\ IsSome(fadt.pm1b_control_block)
    /\ Writes = <<>>
----------------------------------------------------------------------------
(* Claims about initialize, checked under InitializeSpec *)

EnableRead(x) ==
    IsRead(x, pm1_registers.x_pm1a_enable) \/ IsReadOpt(x, pm1_registers.x_pm1b_enable)

GpeRegisterCount == fadt.gpe0_block_length \div 2
GpeStatusWrite(x, i) ==
    x.op = "io_write" /\ x.address = Unwrap(fadt.gpe0_block).address + i
GpeEnableWrite(x, i) ==
    x.op = "io_write" /\ x.address = Unwrap(fadt.gpe0_block).address + i + GpeRegisterCount
GpeWrite(x) ==
    /\ IsSome(fadt.gpe0_block)
    /\ \E i \in 0..(GpeRegisterCount - 1) : GpeStatusWrite(x, i) \/ GpeEnableWrite(x, i)

IsInstall(x) == x.op = "install_interrupt_handler"

\* the step of initialize that a platform or AML access belongs to
Phase(x) ==
    CASE fadt.smi_cmd_port # 0 /\ IsSmiWrite(x) -> 1
      [] IsStall(x) \/ ControlRead(x) -> 1
      [] x.op \in {"map_slice", "aml_parse_table"} -> 2
      [] EnableRead(x) \/ EnableWrite(x) -> 3
      [] GpeWrite(x) -> 4
      [] IsInstall(x) -> 5
      [] x.op = "aml_initialize_objects" -> 6
      [] x.op = "aml_invoke" /\ x.address = PATH_PIC -> 7
      [] OTHER -> 0

IsEnableWriteA(x) == IsWrite(x, pm1_registers.x_pm1a_enable)

\* before position k of the log every fixed event has had its enable bit written
\* 0 and every GPE register its enable register 0x00 and its status register 0xFF
AllDisabledBefore(k) ==
    /\ \E ws \in {SelectSeq(SubSeq(log, 1, k - 1), IsEnableWriteA)} :
          /\ Len(ws) = Len(LIST)
          /\ \A i \in 1..Len(LIST) : LIST[i].enable_register.position \notin ws[i].value
    /\ IsSome(pm1_registers.x_pm1b_enable) =>
          \A i \in 1..Len(LIST) : \E j \in 1..(k - 1) :
              /\ IsWriteOpt(log[j], pm1_registers.x_pm1b_enable)
              /\ LIST[i].enable_register.position \notin log[j].value
    /\ IsSome(fadt.gpe0_block) =>
          \A i \in 0..(GpeRegisterCount - 1) : \E j \in 1..(k - 2) :
              /\ GpeEnableWrite(log[j], i) /\ log[j].value = {}
              /\ GpeStatusWrite(log[j + 1], i) /\ log[j + 1].value = 0..7

\* the step at which a failed initialize stopped
FailedPhase ==
    CASE result \in {"EnableTimeout", "ModeTransitionNotSupported"} -> 1
      [] result = "InstallError" -> 5
      [] result = AmlErr /\ aml.objects # "Ok" -> 6
      [] OTHER -> 7

PhasesOf(s) == {Phase(s[k]) : k \in DOMAIN s}

C16_StepsInPlace ==
    (frames.op = "initialize" /\ pc # "poll_acpi_enabled") =>
        /\ \A k \in DOMAIN log : IsInstall(log[k]) =>
              log[k].address = fadt.sci_interrupt /\ AllDisabledBefore(k)
        /\ (pc = "returned" /\ result # "Ok") => Phase(log[Len(log)]) = FailedPhase
        /\ (pc = "returned" /\ result = "Ok") =>
              \E ps \in {PhasesOf(log)} :
                  /\ {3, 5, 6, 7} \subseteq ps
                  /\ (2 \in ps) <=> (aml.dsdt # "absent")
                  /\ (4 \in ps) <=> IsSome(fadt.gpe0_block)
        /\ pc = "panicked" => PhasesOf(SubSeq(log, Len(log), Len(log))) \subseteq 2..4

\* C16: in every run of initialize the visible steps come in the order mode
\* enable, DSDT parse, fixed-event disabling, GPE block creation, handler
\* installation, initialize_objects, \_PIC; the handler is installed only
\* after every disabling write; a failed step is the last step performed
C16_InitializeOrder ==
    /\ []C16_StepsInPlace
    /\ [][(frames.op = "initialize" /\ frames'.op = "initialize") =>
             /\ Len(log') >= Len(log)
             /\ SubSeq(log', 1, Len(log)) = log
             /\ \A k \in (Len(log) + 1)..Len(log') :
                   Phase(log'[k]) >= (IF k = 1 THEN 1 ELSE Phase(log'[k - 1]))]_vars

\* a complete run: mode enabled through the SMI port, DSDT parsed, GPE0 created
C16_Witness ==
    /\ frames.op = "initialize" /\ pc = "returned" /\ result = "Ok"
    /\ PhasesOf(log) = 1..7
    /\ \E k \in DOMAIN log : IsSmiWrite(log[k])

\* the last access of the current call
LastAccess == log[Len(log)]

\* what initialize hands back once it returns: an error for the step that
\* failed, Ok after a \_PIC that ran or does not exist
FailureReturned ==
    \/ result \in {"EnableTimeout", "ModeTransitionNotSupported"} /\ Phase(LastAccess) = 1
    \/ result = "InstallError" /\ IsInstall(LastAccess)
    \/ result = AmlErr /\ LastAccess.op = "aml_initialize_objects" /\ aml.objects # "Ok"
    \/ result = AmlErr /\ Phase(LastAccess) = 7 /\ aml.pic = "Fault"
    \/ result = "Ok" /\ Phase(LastAccess) = 7 /\ aml.pic \in {"Ok", "ValueDoesNotExist"}

\* C17: every failure during initialize is returned to the caller as an error
\* value and never aborts the program; a missing \_PIC is not a failure
C17_FailuresReturned ==
    frames.op = "initialize" =>
        /\ pc # "panicked"
        /\ pc = "returned" => FailureReturned

----------------------------------------------------------------------------
(* Claims about the PM1 Status writes, checked under StatusSpec *)

StatusWrites == SelectSeq(log, StatusWrite)

\* the writes that write_register(Pm1Status, v) issues: v without bit 11, as
\* wide as the register, to A and then to B
StatusPairWritten(ws, v) ==
    /\ Len(ws) = IF IsSome(pm1_registers.x_pm1b_status) THEN 2 ELSE 1
    /\ IsWrite(ws[1], pm1_registers.x_pm1a_status)
    /\ Len(ws) = 2 => IsWriteOpt(ws[2], pm1_registers.x_pm1b_status)
    /\ \A k \in DOMAIN ws : ws[k].value = AsU(v \ {11}, ws[k].width)

\* C18: every value written to PM1a or PM1b Status has bit 11 equal to 0, and
\* write_register(Pm1Status, v) writes v with bit 11 cleared to A and, if
\* present, to B
C18_StatusBit11NeverWritten ==
    /\ \A k \in DOMAIN log : StatusWrite(log[k]) => 11 \notin log[k].value
    /\ (frames.op \in {"write_register", "clear_fixed_events"} /\ pc = "returned") =>
          StatusPairWritten(StatusWrites, frames.reg_value)

\* write_register(Pm1Status, 0xFFFFFFFF) wrote 0xFFFFF7FF
C18_Witness ==
    /\ frames.op = "write_register" /\ pc = "returned"
    /\ frames.reg_value = WORD
    /\ \E k \in DOMAIN log :
          /\ IsWrite(log[k], pm1_registers.x_pm1a_status)
          /\ log[k].value = WORD \ {11}

----------------------------------------------------------------------------
(* Claims about the PM1 Enable round trip, checked under RoundTripSpec *)

\* C19: on every backing of the PM1 Enable pair, write_register(Pm1Enable, v)
\* followed by read_register(Pm1Enable) returns v, for every 32-bit v
C19_EnableRoundTrip ==
    frames.op = "write_enable" =>
        /\ pc # "panicked"
        /\ pc = "returned" => frames.read_value = frames.reg_value

----------------------------------------------------------------------------
(* Claims about GPE block creation, checked under GpeSpec *)

\* event_info[i] and register_info[i] of the source, which counts from 0
EventInfo(block, i) == block.event_info[i + 1]
RegisterInfo(block, i) == block.register_info[i + 1]

GpeBlockStructure(block, r, B) ==
    /\ block.gpe_count = 8 * r
    /\ Len(block.register_info) = r
    /\ Len(block.event_info) = block.gpe_count
    /\ \A i \in 0..(block.gpe_count - 1) :
          /\ EventInfo(block, i).register_index = i \div 8
          /\ EventInfo(block, i).gpe_number =
                RegisterInfo(block, EventInfo(block, i).register_index).base_gpe_number
                    + (i % 8)
          /\ EventInfo(block, i).gpe_number = B + i

\* C20: a block produced by initialize_gpe_block with register_count r and base
\* number B has gpe_count = 8 * r, r register entries, gpe_count event entries,
\* and event i has register_index i div 8 and gpe_number
\* register_info[register_index].base_gpe_number + (i mod 8) = B + i
C20_GpeBlockStructure ==
    (frames.op = "initialize_gpe_block" /\ pc = "returned") =>
        /\ IsSome(frames.block)
        /\ GpeBlockStructure(Unwrap(frames.block), frames.register_count,
                             frames.block_base_number)

\* length 8: gpe_count 32 and event_info[17] = (17, register 2)
C20_Witness ==
    /\ frames.op = "initialize_gpe_block" /\ pc = "returned"
    /\ fadt.gpe0_block_length = 8 /\ frames.block_base_number = 0
    /\ Unwrap(frames.block).gpe_count = 32
    /\ EventInfo(Unwrap(frames.block), 17) = [gpe_number |-> 17, register_index |-> 2]

\* the hardware writes of the current call, of either address space
IsHardwareWrite(x) == x.op \in {"io_write", "mem_write"}
HardwareWrites == SelectSeq(log, IsHardwareWrite)

\* r 8-bit writes of 0x00 to A+r .. A+2r-1 and r 8-bit writes of 0xFF to
\* A .. A+r-1, each family in ascending address order, and nothing else
GpeWritesIssued(ws, A, r) ==
    /\ Len(ws) = 2 * r
    /\ \A k \in DOMAIN ws : ws[k].width = 8
    /\ \E en \in {SelectSeq(ws, LAMBDA x : x.address >= A + r)} :
          /\ Len(en) = r
          /\ \A i \in 1..r : en[i].address = A + r + (i - 1) /\ en[i].value = {}
    /\ \E st \in {SelectSeq(ws, LAMBDA x : x.address < A + r)} :
          /\ Len(st) = r
          /\ \A i \in 1..r : st[i].address = A + (i - 1) /\ st[i].value = 0..7

\* C21: initialization of a GPE block at address A with r registers, in
\* SystemIo or SystemMemory, issues exactly r 8-bit writes of 0x00 to the enable
\* addresses and r 8-bit writes of 0xFF to the status addresses, in ascending
\* address order, and no other hardware write
C21_GpeWrites ==
    frames.op = "initialize_gpe_block" =>
        /\ pc # "panicked"
        /\ pc = "returned" =>
              GpeWritesIssued(HardwareWrites, Unwrap(fadt.gpe0_block).address,
                              frames.register_count)

----------------------------------------------------------------------------
(* Claims about pending GPEs, checked under PendingSpec *)

LaterOps == {"enable_fixed_event", "handle_sci", "enter_sleep_state"}

GpeCover == GpeStatusCover \cup GpeEnableCover

\* how far a handle_sci call is from its end: the events still to visit, then
\* the steps left for the event being visited
SciRank ==
    CASE pc = "sci_read_status" -> 12
      [] pc = "sci_read_enable" -> 11
      [] pc = "sci_loop" -> 10
      [] pc = "set_read" -> 9
      [] pc = "set_write" -> 8
      [] pc = "sci_handler" -> 7
      [] pc = "prepare_sleep_state" -> 6
      [] pc = "dispatch_sleep_command" -> 5
      [] pc = "write_slp_typ" -> 4
      [] pc = "flush" -> 3
      [] pc = "write_slp_en" -> 2
      [] OTHER -> 0
SciMeasure == 20 * (Len(LIST) + 1 - frames.idx) + SciRank

C22_GpesStayDisabled ==
    /\ (frames.op = "initialize_events" /\ pc = "returned" /\ result = "Ok") =>
          (io \cup mem) \cap GpeEnableCover = {}
    /\ frames.op \in LaterOps => \A k \in DOMAIN log : ~GpeWrite(log[k])
    /\ frames.op = "handle_sci" =>
          /\ frames.idx \in 0..(Len(LIST) + 1)
          /\ Len(SelectSeq(log, IsHandlerCall)) <= Len(LIST)

\* C22: after initialize_events succeeds every GPE0 enable register holds 0; no
\* step of the core ever sets a GPE enable bit, and enable_fixed_event,
\* handle_sci and enter_sleep_state leave the GPE registers alone; every step of
\* handle_sci brings the call nearer to its end (one pass over the five fixed
\* events), whatever GPE status bits are pending
C22_NoGpeLivelock ==
    /\ []C22_GpesStayDisabled
    /\ [][(io' \cup mem') \cap GpeEnableCover \subseteq (io \cup mem) \cap GpeEnableCover]_vars
    /\ [][frames'.op \in LaterOps =>
             (io' \cup mem') \cap GpeCover = (io \cup mem) \cap GpeCover]_vars
    /\ [][(frames.op = "handle_sci" /\ frames'.op = "handle_sci") =>
             SciMeasure' < SciMeasure]_vars

\* handle_sci returned after a successful initialize_events while a GPE is pending
C22_Witness ==
    /\ frames.op = "handle_sci" /\ pc = "returned"
    /\ IsSome(gpe0_block)
    /\ (io \cup mem) \cap GpeStatusCover # {}
    /\ (io \cup mem) \cap GpeEnableCover = {}

----------------------------------------------------------------------------
(* Claims about the Generic Address layer, checked under AddressSpec *)

\* access_bit_width returned for a register with bit_offset 0 and a bit_width
\* of 8, 16, 32 or 64
PowerOfTwoCase ==
    /\ frames.op = "access_bit_width" /\ pc = "returned"
    /\ frames.reg.bit_offset = 0
    /\ frames.reg.bit_width \in {8, 16, 32, 64}

\* C23: access_bit_width (maximum 64) returns bit_width for every Generic Address
\* with bit_offset = 0 and bit_width in {8, 16, 32, 64}, for every access_size
\* and every address space
C23_WidthIsBitWidth ==
    PowerOfTwoCase => frames.access_width = frames.reg.bit_width

\* C23, amended: it returns bit_width in SystemMemory and the smaller of
\* bit_width and 32 in SystemIo, whatever the access_size
C23_WidthIsBitWidthUpTo32InIo ==
    PowerOfTwoCase =>
        frames.access_width =
            IF frames.reg.address_space = "SystemIo" /\ frames.reg.bit_width > 32
            THEN 32 ELSE frames.reg.bit_width

C23_Witness ==
    /\ PowerOfTwoCase
    /\ frames.reg.address_space = "SystemMemory"
    /\ frames.reg.bit_width = 64
    /\ frames.reg.access_size = "ByteAccess"
    /\ frames.access_width = 64

\* access_bit_width returned from its last branch: access_size is Undefined and
\* the power-of-two rule does not apply
FallbackCase ==
    /\ frames.op = "access_bit_width" /\ pc = "returned"
    /\ frames.reg.access_size = "Undefined"
    /\ ~ (/\ frames.reg.bit_offset = 0
          /\ frames.reg.bit_width # 0
          /\ is_power_of_two(frames.reg.bit_width)
          /\ frames.reg.bit_width % 8 = 0)

\* the width the halving starts from, and the cap of the address space
FallbackStart ==
    IF next_power_of_two(frames.reg.bit_offset + frames.reg.bit_width) < 8 THEN 8
    ELSE next_power_of_two(frames.reg.bit_offset + frames.reg.bit_width)

SpaceMaximum == IF frames.reg.address_space = "SystemIo" THEN 32 ELSE 64

\* C24: in the last branch the result is one of 8, 16, 32, 64 and is the largest
\* such power of two, not above the start (nor the cap of the address space),
\* for which address mod (width / 8) = 0
C24_LargestAlignedWidth ==
    FallbackCase =>
        /\ frames.access_width \in {8, 16, 32, 64}
        /\ frames.reg.address % (frames.access_width \div 8) = 0
        /\ \A v \in {8, 16, 32, 64} :
              (/\ v <= FallbackStart
               /\ v <= SpaceMaximum
               /\ frames.reg.address % (v \div 8) = 0) => v <= frames.access_width

\* read_address returned for a register with bit_offset 0
ReadCase ==
    /\ frames.op = "read_address" /\ pc = "returned"
    /\ frames.reg.bit_offset = 0

IsIoRead(x) == x.op = "io_read"

\* C25: raw SystemIO reads are routed by width (8 to the 8-bit, 16 to the 16-bit,
\* 32 to the 32-bit port read), so a 32-bit SystemIO register read returns all
\* 32 bits stored at the port
C25_IoReadsRoutedByWidth ==
    (ReadCase /\ frames.reg.address_space = "SystemIo") =>
        /\ \A k \in 1..Len(log) :
              IsIoRead(log[k]) => log[k].width = frames.access_width
        /\ frames.reg.bit_width = 32 =>
              frames.read_value = PortRead(io, frames.reg.address, 32)

\* number of accesses of width w that cover n bits
Ceil(n, w) == (n + w - 1) \div w

\* the bits of one store between two global positions, as a value
StoreBits(store, address, n) ==
    {b \in 0..(n - 1) : address * 8 + b \in store}

ReadStore == IF frames.reg.address_space = "SystemIo" THEN io ELSE mem

\* C26: with bit_offset 0 and access width W, read_address issues exactly
\* ceil(bit_width / W) raw reads of width W at address + k * (W / 8), ascending,
\* and returns the data read in the low bit_width bits and 0 above them
C26_ReadDecomposition ==
    ReadCase =>
        /\ Len(log) = Ceil(frames.reg.bit_width, frames.access_width)
        /\ \A k \in 1..Len(log) :
              /\ log[k].op \in {"io_read", "mem_read"}
              /\ log[k].width = frames.access_width
              /\ log[k].address =
                     frames.reg.address + (k - 1) * (frames.access_width \div 8)
        /\ frames.read_value =
               StoreBits(ReadStore, frames.reg.address, frames.reg.bit_width)

----------------------------------------------------------------------------
(* Claims about status bits raised during handle_sci, checked under        *)
(* ConcurrentSpec                                                          *)

\* a PM1 Status write of the call carried a 1 in e's status bit: on
\* write-1-to-clear hardware the call cleared the bit
ClearedInCall(e) ==
    \E k \in DOMAIN log : StatusWrite(log[k]) /\ StatusBit(e) \in log[k].value

InvokedInCall(e) == \E k \in DOMAIN Invoked : Invoked[k] = e

\* C27: when the hardware raises status bits between the register accesses of
\* handle_sci, the call clears the status bit of an enabled event with an
\* installed handler only if it invokes that handler in the same call, so no
\* fixed event is lost
C27_NoEventLost ==
    (frames.op = "handle_sci" /\ pc = "returned") =>
        \A e \in 1..Len(LIST) :
            (/\ ClearedInCall(e)
             /\ EnableBit(e) \in HwEnable
             /\ IsSome(HandlerOf(e))) => InvokedInCall(e)

====
